---- MODULE Spec2Model ----
(***************************************************************************)
(* Order marketplace: the sheet synchronisation job (sync-sheet edge       *)
(* function), the orders / assignments tables with their row-level         *)
(* security, and the editor dashboards (OrdersGrid, MyOrdersList).         *)
(*                                                                         *)
(* Text is a sequence of character codes, so that trimming, lower-casing,  *)
(* hashing and number parsing are computed as the code computes them.      *)
(* The JavaScript null / undefined is the one-element sequence Null.       *)
(***************************************************************************)
EXTENDS Integers, Sequences, FiniteSets, TLC

\* ------------------------------------------------------------------ text

Null == <<-1>>

EmptyStr == <<>>

IsDigit(c) == c >= 48 /\ c <= 57

\* \s of a JavaScript regular expression and of String.trim, on the
\* characters the feeds of the model use: space, tab, line feed.
IsSpace(c) == c \in {32, 9, 10}

\* String(x ?? ""): null and undefined become the empty text.
Str(x) == IF x = Null THEN EmptyStr ELSE x

\* a ?? b
Coalesce(a, b) == IF a = Null THEN b ELSE a

RECURSIVE TrimLeft(_)
TrimLeft(s) ==
  IF s = <<>> THEN s
  ELSE IF IsSpace(Head(s)) THEN TrimLeft(Tail(s)) ELSE s

RECURSIVE TrimRight(_)
TrimRight(s) ==
  IF s = <<>> THEN s
  ELSE IF IsSpace(s[Len(s)]) THEN TrimRight(SubSeq(s, 1, Len(s) - 1)) ELSE s

\* String.prototype.trim
Trim(s) == TrimRight(TrimLeft(s))

\* String.prototype.toLowerCase on ASCII letters
ToLowerCase(s) == [i \in 1..Len(s) |-> IF s[i] >= 65 /\ s[i] <= 90 THEN s[i] + 32 ELSE s[i]]

\* does sub occur in s starting at position i (1-based)
MatchAt(s, sub, i) ==
  /\ i >= 1
  /\ i + Len(sub) - 1 <= Len(s)
  /\ \A j \in 1..Len(sub) : s[i + j - 1] = sub[j]

\* String.prototype.includes
Includes(s, sub) == \E i \in 1..(Len(s) + 1) : MatchAt(s, sub, i)

\* Array.prototype.join
RECURSIVE Join(_, _)
Join(parts, sep) ==
  IF parts = <<>> THEN <<>>
  ELSE IF Len(parts) = 1 THEN parts[1]
  ELSE parts[1] \o sep \o Join(Tail(parts), sep)

\* Array.prototype.filter(Boolean) on texts: drops the empty ones.
RECURSIVE FilterBoolean(_)
FilterBoolean(parts) ==
  IF parts = <<>> THEN <<>>
  ELSE IF Head(parts) = <<>> THEN FilterBoolean(Tail(parts))
  ELSE <<Head(parts)>> \o FilterBoolean(Tail(parts))

\* ------------------------------------------------------------ djb2Hash

\* The hash is a 32-bit integer; it is kept as two 16-bit halves <<hi, lo>>
\* so that hash * 33 + c never leaves the range of TLC's 32-bit integers.
HalfWord == 65536

HashSeed == <<0, 5381>>

\* hash = ((hash << 5) + hash) + c; hash |= 0
HashStep(h, c) ==
  LET lo == h[2] * 33 + c
      hi == h[1] * 33 + (lo \div HalfWord)
  IN  <<hi % HalfWord, lo % HalfWord>>

RECURSIVE HashFold(_, _)
HashFold(h, s) == IF s = <<>> THEN h ELSE HashFold(HashStep(h, Head(s)), Tail(s))

Base36Digit(d) == IF d < 10 THEN 48 + d ELSE 87 + d

\* (hash >>> 0).toString(36) of the value hi * 2^16 + lo
RECURSIVE ToString36(_)
ToString36(h) ==
  LET qhi == h[1] \div 36
      t   == (h[1] % 36) * HalfWord + h[2]
      qlo == t \div 36
      r   == t % 36
  IN  IF qhi = 0 /\ qlo = 0 THEN <<Base36Digit(r)>>
      ELSE ToString36(<<qhi, qlo>>) \o <<Base36Digit(r)>>

djb2Hash(input) == ToString36(HashFold(HashSeed, input))

\* -------------------------------------------------- parseBudgetToNumber

Comma == 44
Dot == 46
Hyphen == 45

\* s.replace(/[–—−]/g, "-"): en dash, em dash and minus sign become a hyphen.
NormalizeDashes(s) == [i \in 1..Len(s) |-> IF s[i] \in {8211, 8212, 8722} THEN Hyphen ELSE s[i]]

\* are s[i .. i+k-1] all digits
DigitsAt(s, i, k) == i + k - 1 <= Len(s) /\ \A j \in i..(i + k - 1) : IsDigit(s[j])

\* \d+ from i: the position after the run of digits starting at i (i if none)
RECURSIVE DigitRunEnd(_, _)
DigitRunEnd(s, i) == IF i <= Len(s) /\ IsDigit(s[i]) THEN DigitRunEnd(s, i + 1) ELSE i

\* \s* from i: the position after the run of white space starting at i
RECURSIVE SpaceRunEnd(_, _)
SpaceRunEnd(s, i) == IF i <= Len(s) /\ IsSpace(s[i]) THEN SpaceRunEnd(s, i + 1) ELSE i

\* one (?:[,\s]\d{2,3}) at j: the position after it, three digits preferred
\* to two; 0 if the group does not match at j.
GroupEnd(s, j) ==
  IF j <= Len(s) /\ (s[j] = Comma \/ IsSpace(s[j]))
  THEN IF DigitsAt(s, j + 1, 3) THEN j + 4
       ELSE IF DigitsAt(s, j + 1, 2) THEN j + 3
       ELSE 0
  ELSE 0

\* (?:[,\s]\d{2,3})* from j, greedy
RECURSIVE GroupsEnd(_, _)
GroupsEnd(s, j) == IF GroupEnd(s, j) = 0 THEN j ELSE GroupsEnd(s, GroupEnd(s, j))

\* \d{1,3}(?:[,\s]\d{2,3})+ at i: tried with 3, then 2, then 1 leading
\* digits; the position after the match, 0 if none.
GroupedEnd(s, i) ==
  IF DigitsAt(s, i, 3) /\ GroupEnd(s, i + 3) # 0 THEN GroupsEnd(s, i + 3)
  ELSE IF DigitsAt(s, i, 2) /\ GroupEnd(s, i + 2) # 0 THEN GroupsEnd(s, i + 2)
  ELSE IF DigitsAt(s, i, 1) /\ GroupEnd(s, i + 1) # 0 THEN GroupsEnd(s, i + 1)
  ELSE 0

\* \d+(?:\.\d+)? at i: the position after the match, 0 if none.
PlainEnd(s, i) ==
  IF ~DigitsAt(s, i, 1) THEN 0
  ELSE LET e == DigitRunEnd(s, i)
       IN  IF e <= Len(s) /\ s[e] = Dot /\ DigitsAt(s, e + 1, 1)
           THEN DigitRunEnd(s, e + 1)
           ELSE e

\* capture group 1 at i: the first alternative that matches
NumberEnd(s, i) == IF GroupedEnd(s, i) # 0 THEN GroupedEnd(s, i) ELSE PlainEnd(s, i)

\* capture group 2 at p, (k|m|l|lac|lakh|lakhs|cr|crore)?, alternatives in
\* order: "l" wins over lac/lakh/lakhs and "cr" over crore. The result is
\* the multiplier the suffix stands for, 1 when there is none.
SuffixMultiplier(s, p) ==
  IF p > Len(s) THEN 1
  ELSE IF s[p] = 107 THEN 1000
  ELSE IF s[p] = 109 THEN 1000000
  ELSE IF s[p] = 108 THEN 100000
  ELSE IF MatchAt(s, <<99, 114>>, p) THEN 10000000
  ELSE 1

SuffixLen(s, p) ==
  IF p > Len(s) THEN 0
  ELSE IF s[p] \in {107, 109, 108} THEN 1
  ELSE IF MatchAt(s, <<99, 114>>, p) THEN 2
  ELSE 0

\* numStr.replace(/[\s,]/g, "")
RECURSIVE StripSeparators(_)
StripSeparators(s) ==
  IF s = <<>> THEN <<>>
  ELSE IF Head(s) = Comma \/ IsSpace(Head(s)) THEN StripSeparators(Tail(s))
  ELSE <<Head(s)>> \o StripSeparators(Tail(s))

RECURSIVE DigitsValue(_)
DigitsValue(s) ==
  IF s = <<>> THEN 0 ELSE DigitsValue(SubSeq(s, 1, Len(s) - 1)) * 10 + (s[Len(s)] - 48)

RECURSIVE Pow10(_)
Pow10(n) == IF n = 0 THEN 1 ELSE 10 * Pow10(n - 1)

\* Math.round(parseFloat(numStr) * mult): numStr is digits with at most
\* one decimal point; the value is n / 10^f with n the digits read as one
\* integer and f the number of decimals. Math.round rounds halves up.
RoundScaled(numStr, mult) ==
  LET dotAt == IF \E i \in 1..Len(numStr) : numStr[i] = Dot
               THEN CHOOSE i \in 1..Len(numStr) : numStr[i] = Dot
               ELSE 0
      whole == IF dotAt = 0 THEN numStr ELSE SubSeq(numStr, 1, dotAt - 1)
      frac  == IF dotAt = 0 THEN <<>> ELSE SubSeq(numStr, dotAt + 1, Len(numStr))
      n     == DigitsValue(whole \o frac)
      d     == Pow10(Len(frac))
  IN  IF mult % d = 0 THEN n * (mult \div d)
      ELSE (2 * n * mult + d) \div (2 * d)

\* the while ((m = re.exec(s)) !== null) loop from position i: the
\* sequence of values pushed.
RECURSIVE BudgetValues(_, _)
BudgetValues(s, i) ==
  IF i > Len(s) THEN <<>>
  ELSE IF NumberEnd(s, i) = 0 THEN BudgetValues(s, i + 1)
  ELSE LET e == NumberEnd(s, i)
           p == SpaceRunEnd(s, e)
           v == RoundScaled(StripSeparators(SubSeq(s, i, e - 1)), SuffixMultiplier(s, p))
       IN  <<v>> \o BudgetValues(s, p + SuffixLen(s, p))

RECURSIVE SeqMax(_)
SeqMax(vs) ==
  IF Len(vs) = 1 THEN vs[1]
  ELSE LET m == SeqMax(Tail(vs)) IN IF vs[1] >= m THEN vs[1] ELSE m

\* parseBudgetToNumber returning the first value pushed, not the largest.
parseBudgetFirstMatch(budget) ==
  IF budget = Null \/ budget = <<>> THEN 0
  ELSE LET vs == BudgetValues(NormalizeDashes(Trim(ToLowerCase(budget))), 1)
       IN  IF vs = <<>> THEN 0 ELSE vs[1]

parseBudgetToNumber(budget) ==
  IF budget = Null \/ budget = <<>> THEN 0
  ELSE LET s  == NormalizeDashes(Trim(ToLowerCase(budget)))
           vs == BudgetValues(s, 1)
       IN  IF vs = <<>> THEN 0 ELSE SeqMax(vs)

\* ------------------------------------------------- mapTimelineToDueDate

\* new Date() + days, in days
addDays(now, days) == now + days

sUrgent == <<117, 114, 103, 101, 110, 116>>
sWeek == <<119, 101, 101, 107>>
sMonth == <<109, 111, 110, 116, 104>>
s1to3 == <<49, 45, 51>>
s3to7 == <<51, 45, 55>>
s1to4 == <<49, 45, 52>>

\* mapTimelineToDueDate with the month rule tried before the week rule.
mapTimelineMonthFirst(timeline, now) ==
  IF timeline = Null \/ timeline = <<>> THEN Null
  ELSE LET t == ToLowerCase(timeline)
       IN  IF Includes(t, sUrgent) \/ Includes(t, s1to3) THEN <<addDays(now, 3)>>
           ELSE IF Includes(t, sMonth) \/ Includes(t, s1to4) THEN <<addDays(now, 28)>>
           ELSE IF Includes(t, sWeek) \/ Includes(t, s3to7) THEN <<addDays(now, 7)>>
           ELSE Null

mapTimelineToDueDate(timeline, now) ==
  IF timeline = Null \/ timeline = <<>> THEN Null
  ELSE LET t == ToLowerCase(timeline)
       IN  IF Includes(t, sUrgent) \/ Includes(t, s1to3) THEN <<addDays(now, 3)>>
           ELSE IF Includes(t, sWeek) \/ Includes(t, s3to7) THEN <<addDays(now, 7)>>
           ELSE IF Includes(t, sMonth) \/ Includes(t, s1to4) THEN <<addDays(now, 28)>>
           ELSE Null


\* ------------------------------------------------------------ the feed

\* Column headers of the intake sheet.
LService == "What type of service you want ?"
LDesc == "Could you briefly describe your project or needs?"
LBudget == "What is your estimated budget for this project?"
LTimeline == "What is your preferred timeline for project completion?"
LName == "What is your full name?"
LTimestamp == "Timestamp"

\* const required = [...]
required == <<LService, LDesc, LBudget, LTimeline, LName, LTimestamp>>

\* A raw feed row, in both variants: the keys of the row object (array
\* variant; empty in the wrapped variant, whose labels are the table's
\* cols) and its cells, each a pair <<v, f>> of raw and formatted value.
RawRow(labels, cells) == [labels |-> labels, cells |-> cells]

\* Array variant, get(label): row[label] ?? null
ArrayGet(row, label) ==
  IF \E i \in 1..Len(row.labels) : row.labels[i] = label
  THEN row.cells[CHOOSE i \in 1..Len(row.labels) : row.labels[i] = label][1]
  ELSE Null

\* gviz.table.cols.forEach((c, idx) => (colIndex[c.label] = idx)): the last
\* column carrying a label wins; 0 stands for "not in colIndex".
ColIndex(cols, label) ==
  IF \E i \in 1..Len(cols) : cols[i] = label
  THEN CHOOSE i \in 1..Len(cols) :
         cols[i] = label /\ \A j \in (i + 1)..Len(cols) : cols[j] # label
  ELSE 0

\* Wrapped variant, get(label): row.c[colIndex[label]]?.f ?? row.c[...]?.v ?? null
GvizGet(cols, row, label) ==
  LET idx == ColIndex(cols, label)
  IN  IF idx = 0 \/ idx > Len(row.cells) THEN Null
      ELSE Coalesce(row.cells[idx][2], row.cells[idx][1])

\* MissingColumn testing the first required label only
MissingColumnFirst(cols) == ColIndex(cols, required[1]) = 0

\* for (const r of required) if (!(r in colIndex)) throw ...
MissingColumn(cols) == \E i \in 1..Len(required) : ColIndex(cols, required[i]) = 0

sClient == <<67, 108, 105, 101, 110, 116>>
Pipe == <<124>>
\* " — " (space, em dash, space)
sDashSep == <<32, 8212, 32>>

GoogleSheet == "google_sheet"

\* The body of both toInsert = rows.map(...) callbacks after the six fields
\* are read with the variant's get: the record built for one row, or
\* NoRecord for a row that is skipped (return null, dropped by
\* .filter(Boolean)).
NoRecord == [skip |-> TRUE]

\* MapFields with the identity always hashed from the fingerprint
MapFieldsHashed(nameV, serviceV, descV, budgetV, timelineV, timestampV, row, now) ==
  LET fullName  == IF Trim(Str(nameV)) = <<>> THEN sClient ELSE Trim(Str(nameV))
      service   == Trim(Str(serviceV))
      desc      == Trim(Str(descV))
      budgetRaw == Trim(Str(budgetV))
      timeline  == Trim(Str(timelineV))
      fingerprint == Join(<<fullName, service, desc, budgetRaw, timeline>>, Pipe)
  IN  IF service = <<>> /\ desc = <<>> THEN NoRecord
      ELSE [skip |-> FALSE,
            client_name |-> fullName,
            requirement_text |-> Join(FilterBoolean(<<service, desc>>), sDashSep),
            price |-> parseBudgetToNumber(budgetRaw),
            due_date |-> mapTimelineToDueDate(timeline, now),
            status |-> "available",
            source |-> GoogleSheet,
            sheet_row_id |-> djb2Hash(fingerprint),
            raw_sheet_json |-> row]

\* MapFields without the test for a blank row
MapFieldsKeepBlank(nameV, serviceV, descV, budgetV, timelineV, timestampV, row, now) ==
  LET fullName  == IF Trim(Str(nameV)) = <<>> THEN sClient ELSE Trim(Str(nameV))
      service   == Trim(Str(serviceV))
      desc      == Trim(Str(descV))
      budgetRaw == Trim(Str(budgetV))
      timeline  == Trim(Str(timelineV))
      timestamp == Trim(Str(timestampV))
      fingerprint == Join(<<fullName, service, desc, budgetRaw, timeline>>, Pipe)
  IN  [skip |-> FALSE,
       client_name |-> fullName,
       requirement_text |-> Join(FilterBoolean(<<service, desc>>), sDashSep),
       price |-> parseBudgetToNumber(budgetRaw),
       due_date |-> mapTimelineToDueDate(timeline, now),
       status |-> "available",
       source |-> GoogleSheet,
       sheet_row_id |-> IF timestamp # <<>> THEN timestamp ELSE djb2Hash(fingerprint),
       raw_sheet_json |-> row]

MapFields(nameV, serviceV, descV, budgetV, timelineV, timestampV, row, now) ==
  LET fullName  == IF Trim(Str(nameV)) = <<>> THEN sClient ELSE Trim(Str(nameV))
      service   == Trim(Str(serviceV))
      desc      == Trim(Str(descV))
      budgetRaw == Trim(Str(budgetV))
      timeline  == Trim(Str(timelineV))
      timestamp == Trim(Str(timestampV))
      fingerprint == Join(<<fullName, service, desc, budgetRaw, timeline>>, Pipe)
  IN  IF service = <<>> /\ desc = <<>> THEN NoRecord
      ELSE [skip |-> FALSE,
            client_name |-> fullName,
            requirement_text |-> Join(FilterBoolean(<<service, desc>>), sDashSep),
            price |-> parseBudgetToNumber(budgetRaw),
            due_date |-> mapTimelineToDueDate(timeline, now),
            status |-> "available",
            source |-> GoogleSheet,
            sheet_row_id |-> IF timestamp # <<>> THEN timestamp ELSE djb2Hash(fingerprint),
            raw_sheet_json |-> row]

LFullNameAlt == "Full Name"
LServiceAlt == "Service"
LDescAlt == "Description"
LBudgetAlt == "Budget"
LTimelineAlt == "Timeline"
LTimestampAlt == "timestamp"

\* json.map((row, idx) => ...) of the OpenSheet path
MapArrayRow(row, now) ==
  MapFields(Coalesce(ArrayGet(row, LName), ArrayGet(row, LFullNameAlt)),
            Coalesce(ArrayGet(row, LService), ArrayGet(row, LServiceAlt)),
            Coalesce(ArrayGet(row, LDesc), ArrayGet(row, LDescAlt)),
            Coalesce(ArrayGet(row, LBudget), ArrayGet(row, LBudgetAlt)),
            Coalesce(ArrayGet(row, LTimeline), ArrayGet(row, LTimelineAlt)),
            Coalesce(ArrayGet(row, LTimestamp), ArrayGet(row, LTimestampAlt)),
            row, now)

\* rows.map((row, idx) => ...) of the GViz path
MapGvizRow(cols, row, now) ==
  MapFields(GvizGet(cols, row, LName), GvizGet(cols, row, LService),
            GvizGet(cols, row, LDesc), GvizGet(cols, row, LBudget),
            GvizGet(cols, row, LTimeline), GvizGet(cols, row, LTimestamp),
            row, now)

\* .filter(Boolean) on the mapped rows
RECURSIVE DropSkipped(_)
DropSkipped(recs) ==
  IF recs = <<>> THEN <<>>
  ELSE IF Head(recs).skip THEN DropSkipped(Tail(recs))
  ELSE <<Head(recs)>> \o DropSkipped(Tail(recs))

\* toInsert of the OpenSheet path / of the GViz path
ToInsertArray(rows, now) == DropSkipped([i \in 1..Len(rows) |-> MapArrayRow(rows[i], now)])

ToInsertGviz(cols, rows, now) == DropSkipped([i \in 1..Len(rows) |-> MapGvizRow(cols, rows[i], now)])


\* ------------------------------------------------------- sample inputs

sT1 == <<84, 49>>
sT2 == <<84, 50>>
sBo == <<66, 111>>
sEdit == <<101, 100, 105, 116>>
sReel == <<114, 101, 101, 108>>
sLong == <<108, 111, 110, 103>>
s5k == <<53, 107>>
sRange == <<49, 53, 48, 48, 45, 50, 53, 48, 48>>
s1to4Weeks == <<49, 45, 52, 32, 119, 101, 101, 107, 115>>
sDateV == <<68, 97, 116, 101>>
sLink == <<104, 116, 116, 112>>
sNote == <<111, 107>>
sFailed == <<70, 65, 73, 76, 69, 68>>

Cell(v) == <<v, Null>>

\* cols of the published sheet, in the order OrdersGrid.extractFromSheet reads them
SheetCols == <<LTimestamp, LService, LDesc, LBudget, LTimeline, LName>>

GvizRow(ts, service, desc, budget, timeline, name) ==
  RawRow(<<>>, <<<<sDateV, ts>>, Cell(service), Cell(desc), Cell(budget), Cell(timeline), Cell(name)>>)

gRowA == GvizRow(sT1, sEdit, sReel, s5k, s1to4Weeks, sBo)
\* same timestamp as gRowA, other content
gRowB == GvizRow(sT1, sEdit, sLong, sRange, Null, sBo)
\* no timestamp and no name: identity by hash
gRowC == GvizRow(Null, sEdit, Null, Null, Null, <<32>>)
gRowD == GvizRow(sT2, Null, sLong, s5k, Null, sBo)
\* blank form row: a timestamp and a name, no service and no description
gRowBlank == GvizRow(sT1, Null, <<32>>, Null, Null, sBo)

\* array-variant row keyed by the fallback headers
aRowA == RawRow(<<LTimestampAlt, LServiceAlt, LBudgetAlt>>, <<Cell(sT1), Cell(sReel), Cell(sRange)>>)
\* array-variant blank row
aRowBlank == RawRow(<<LTimestampAlt, LServiceAlt, LName>>, <<Cell(sT2), Cell(<<32>>), Cell(sBo)>>)

\* A feed response: res.ok, what the body decodes to, and its content.
Feed(ok, format, cols, rows) == [ok |-> ok, format |-> format, cols |-> cols, rows |-> rows]

GvizFeed(rows) == Feed(TRUE, "jsonp", SheetCols, rows)

FeedPool ==
  { GvizFeed(<<gRowA>>),
    GvizFeed(<<gRowA, gRowB>>),
    GvizFeed(<<gRowC, gRowBlank>>),
    GvizFeed(<<gRowD>>),
    Feed(TRUE, "jsonp", <<LTimestamp, LService, LDesc>>, <<gRowA>>),
    Feed(TRUE, "json_array", <<>>, <<aRowA, aRowBlank>>),
    Feed(TRUE, "garbage", <<>>, <<>>),
    Feed(FALSE, "garbage", <<>>, <<>>) }


\* ------------------------------------------------------------ the store

\* bounds of the model
MaxOrders == 3
MaxTime == 3
MaxRuns == 2
MaxManual == 1

\* invocations of the edge function that can be in progress at once; all
\* but the overlapping-invocations specification run them one at a time
Procs == {"sync1", "sync2"}
OneAtATime == {"sync1"}
Users == {"e1", "e2"}
MixUsers == {"e1"}
\* a user who was given the admin role besides the editor role of the sign-up
Admin == "a1"
Staff == Users \cup {Admin}
StaleUsers == {Admin, "e2"}
NoUser == "null"

VARIABLES
  orders,       \* public.orders: row id -> row
  nextId,       \* the next generated row id
  assignments,  \* public.assignments: sequence of rows
  now,          \* the wall clock
  sync,         \* per invocation of the edge function: its locals and position
  response,     \* the last HTTP response of the edge function
  runs,         \* invocations started so far
  ed,           \* per editor: the running dashboard handler and the last toast
  grid,         \* OrdersGrid.orders: the ids listed as available
  mine,         \* MyOrdersList.takenOrders: the ids listed as in progress
  manual,       \* rows inserted directly so far
  hist,         \* per invocation: what it started from, for the properties below
  call,         \* the last call of a parsing function or of handleSync: its
                \* name, argument and result
  admin         \* the Admin page: its state and the position of checkAdminAccess

vars == <<orders, nextId, assignments, now, sync, response, runs, ed, grid, mine, manual, hist, call, admin>>

\* public.user_roles: handle_new_user gives every signed-up user the editor role
user_roles == [u \in Staff |-> IF u = Admin THEN {"editor", "admin"} ELSE {"editor"}]

has_role(u, role) == role \in user_roles[u]

\* CREATE TABLE public.orders: a new row from the given columns, the others
\* taking their defaults.
NewOrder(rec) ==
  [source |-> rec.source, sheet_row_id |-> rec.sheet_row_id,
   client_name |-> rec.client_name, requirement_text |-> rec.requirement_text,
   price |-> rec.price, due_date |-> rec.due_date, status |-> rec.status,
   taken_by |-> NoUser, taken_at |-> Null, completed_at |-> Null,
   deliverable_link |-> Null, raw_sheet_json |-> rec.raw_sheet_json,
   actual_amount |-> Null, editor_feedback |-> Null]

Ids == DOMAIN orders

\* InsertOrders under a unique index on sheet_row_id with the conflicting
\* rows skipped.
InsertOrdersUnique(tbl, first, recs) ==
  [o \in DOMAIN tbl \cup
         {first + i - 1 : i \in {j \in 1..Len(recs) :
            \A x \in DOMAIN tbl : tbl[x].sheet_row_id # recs[j].sheet_row_id}} |->
     IF o \in DOMAIN tbl THEN tbl[o] ELSE NewOrder(recs[o - first + 1])]

\* insert(recs): the rows get the next generated ids
InsertOrders(tbl, first, recs) ==
  [o \in DOMAIN tbl \cup first..(first + Len(recs) - 1) |->
     IF o \in DOMAIN tbl THEN tbl[o] ELSE NewOrder(recs[o - first + 1])]

\* delete of the rows in gone; assignments.order_id ... ON DELETE CASCADE
DeleteOrders(tbl, gone) == [o \in DOMAIN tbl \ gone |-> tbl[o]]

RECURSIVE CascadeAssignments(_, _)
CascadeAssignments(asg, gone) ==
  IF asg = <<>> THEN <<>>
  ELSE IF Head(asg).order_id \in gone THEN CascadeAssignments(Tail(asg), gone)
  ELSE <<Head(asg)>> \o CascadeAssignments(Tail(asg), gone)

\* Row-level security of public.orders for UPDATE: the policies "Editors can
\* take available orders" and "Admins can manage all orders", OR-ed.
RlsUsing(u, row) ==
  \/ row.status = "available"
  \/ row.taken_by = u
  \/ has_role(u, "admin")


\* RlsWithCheck with the WITH CHECK clause left out of the policy: the USING
\* expression is then applied to the new row.
RlsWithCheckOmitted(u, row) == RlsUsing(u, row)

RlsWithCheck(u, row) ==
  \/ row.status = "taken" /\ row.taken_by = u
  \/ row.status = "completed" /\ row.taken_by = u
  \/ has_role(u, "admin")

\* Matched with the second .eq left out: the row is found by id alone
MatchedById(tbl, u, o, eq) ==
  IF o \in DOMAIN tbl /\ RlsUsing(u, tbl[o]) THEN {o} ELSE {}

\* An update issued by the dashboard of user u with .eq("id", o) and one
\* more .eq(column, value), given as eq: the rows it matches are those the
\* filters select and the USING clause shows.
Matched(tbl, u, o, eq) ==
  IF /\ o \in DOMAIN tbl
     /\ \A col \in DOMAIN eq : tbl[o][col] = eq[col]
     /\ RlsUsing(u, tbl[o])
  THEN {o} ELSE {}

\* .update(payload) on one row: the columns of the payload are written
Patched(row, payload) ==
  [col \in DOMAIN row |-> IF col \in DOMAIN payload THEN payload[col] ELSE row[col]]

\* The new row fails WITH CHECK: the statement is rejected as a whole.
Rejected(tbl, u, rows, payload) ==
  \E o \in rows : ~RlsWithCheck(u, Patched(tbl[o], payload))

ApplyPatch(tbl, rows, payload) ==
  [o \in DOMAIN tbl |-> IF o \in rows THEN Patched(tbl[o], payload) ELSE tbl[o]]


\* ------------------------------------------------- the sync-sheet job

\* const chunk = 1000
chunk == 1000

SyncIdle ==
  [pc |-> "idle", purge |-> FALSE, path |-> "gviz", toInsert |-> <<>>,
   rowsLength |-> 0, existingMap |-> <<>>, i |-> 1, inserted |-> 0,
   updated |-> 0, purged |-> 0, staleIds |-> <<>>, err |-> "none"]

\* Response with inserted counting every record of the feed
ResponseCountsFeed(status, ok, error, s) ==
  [status |-> status, ok |-> ok, error |-> error, inserted |-> Len(s.toInsert),
   updated |-> s.updated, purged |-> s.purged, totalRows |-> s.rowsLength]

\* A response: its status and the fields of its JSON body (ok is "absent"
\* when the body has no ok field; error says whether it has an error field).
Response(status, ok, error, s) ==
  [status |-> status, ok |-> ok, error |-> error, inserted |-> s.inserted,
   updated |-> s.updated, purged |-> s.purged, totalRows |-> s.rowsLength]

NoResponse == Response(0, "absent", FALSE, SyncIdle)

HistIdle ==
  [start |-> << >>, body |-> "absent", feed |-> << >>, dirty |-> FALSE, prev |-> << >>,
   origin |-> << >>]

\* The invocation that just ended failed after its select, alone: what it
\* started from, for the invocation that retries it. A chain of such
\* failures over one feed keeps the first start.
Origin(h, s) ==
  IF s.err \in {"insert", "update", "delete"}
  THEN IF h.dirty THEN << >>
       ELSE IF h.origin # << >> /\ h.origin[1].feed = h.feed /\ h.origin[1].purge = s.purge
       THEN h.origin
       ELSE <<[start |-> h.start, feed |-> h.feed, purge |-> s.purge]>>
  ELSE IF s.err = "none" THEN << >>
  ELSE h.origin

\* A writer other than invocation p changed the orders table.
DisturbedExcept(h, p) ==
  [q \in Procs |-> IF q = p THEN h[q] ELSE [h[q] EXCEPT !.dirty = TRUE, !.prev = << >>, !.origin = << >>]]

\* A writer that is no invocation of the job changed the orders table.
Disturbed(h) == DisturbedExcept(h, "none")

SeqToSet(q) == {q[i] : i \in 1..Len(q)}

\* existingMap: for (const r of existing ?? []) if (id) existingMap.set(id, ...),
\* the rows read in id order; the keys in insertion order.
RECURSIVE ExistingKeys(_, _, _)
ExistingKeys(tbl, o, acc) ==
  IF o > MaxOrders + 1 THEN acc
  ELSE IF o \in DOMAIN tbl /\ tbl[o].sheet_row_id # Null /\ tbl[o].sheet_row_id # <<>>
          /\ tbl[o].sheet_row_id \notin SeqToSet(acc)
       THEN ExistingKeys(tbl, o + 1, Append(acc, tbl[o].sheet_row_id))
       ELSE ExistingKeys(tbl, o + 1, acc)


\* newRecords without the existingMap test.
newRecordsUnfiltered(s) == s.toInsert

\* toInsert.filter((r) => !existingMap.has(r.sheet_row_id))
newRecords(s) == SelectSeq(s.toInsert, LAMBDA r : r.sheet_row_id \notin SeqToSet(s.existingMap))

\* toInsert.filter((r) => existingMap.has(r.sheet_row_id))
updateRecords(s) == SelectSeq(s.toInsert, LAMBDA r : r.sheet_row_id \in SeqToSet(s.existingMap))

\* new Set(toInsert.map((r) => r.sheet_row_id))
currentIds(s) == {s.toInsert[i].sheet_row_id : i \in 1..Len(s.toInsert)}


\* StaleIds without the currentIds test.
StaleIdsUnfiltered(s) == s.existingMap

\* for (const [id] of existingMap) if (!currentIds.has(id)) staleIds.push(id)
StaleIds(s) == SelectSeq(s.existingMap, LAMBDA id : id \notin currentIds(s))

\* Throw with the error leaving the handler: no response is made
ThrowEscapes(p, kind) ==
  /\ sync' = [sync EXCEPT ![p].pc = "idle", ![p].err = kind]
  /\ response' = response

\* catch (e): status 500, {ok: false, error}
Throw(p, kind) ==
  /\ sync' = [sync EXCEPT ![p].pc = "idle", ![p].err = kind]
  /\ response' = [response EXCEPT ![p] = Response(500, "false", TRUE, SyncIdle)]

\* where the handler goes once the insert step is over
AfterUpdate(s) == IF s.purge THEN "purge1" ELSE "respond"

AfterInsert(s) == IF Len(updateRecords(s)) > 0 THEN "update" ELSE AfterUpdate(s)

AfterSelect(s) == IF Len(newRecords(s)) > 0 THEN "insert" ELSE AfterInsert(s)

AfterPurge1(s) == IF Len(s.staleIds) > 0 THEN "purge2" ELSE "respond"

\* Boolean(body?.purge); a body that does not parse leaves purge = false
BodyPurge(b) == b = "true"

\* targetUrl.includes("opensheet.elk.sh")
PathOf(sheetUrl) == IF sheetUrl = "opensheet" THEN "array" ELSE "gviz"

\* serve(async (req) => ...) up to the fetch
Invoke(p) ==
  /\ sync[p].pc = "idle"
  /\ runs < MaxRuns
  /\ runs' = runs + 1
  /\ \E method \in {"OPTIONS", "POST"}, env \in BOOLEAN,
        bodyPurge \in {"absent", "true", "false"}, sheetUrl \in {"absent", "opensheet", "gviz"} :
       /\ hist' = [hist EXCEPT ![p] = [@ EXCEPT !.start = orders, !.body = bodyPurge, !.feed = << >>, !.dirty = FALSE,
                                                   !.origin = Origin(hist[p], sync[p])]]
       /\ IF method = "OPTIONS"
          THEN /\ sync' = [sync EXCEPT ![p] = SyncIdle]
               /\ response' = [response EXCEPT ![p] = Response(204, "absent", FALSE, SyncIdle)]
          ELSE IF ~env
          THEN /\ sync' = [sync EXCEPT ![p] = [SyncIdle EXCEPT !.err = "env"]]
               /\ response' = [response EXCEPT ![p] = Response(500, "absent", TRUE, SyncIdle)]
          ELSE /\ sync' = [sync EXCEPT ![p] = [SyncIdle EXCEPT !.pc = "fetch",
                                                !.purge = BodyPurge(bodyPurge),
                                                !.path = PathOf(sheetUrl)]]
               /\ response' = [response EXCEPT ![p] = NoResponse]
  /\ UNCHANGED <<orders, nextId, assignments, now, ed, grid, mine, manual, call, admin>>

\* await fetch(targetUrl), decoding and row mapping
Fetch(p) ==
  /\ sync[p].pc = "fetch"
  /\ \E f \in FeedPool :
       /\ hist' = [hist EXCEPT ![p].feed = <<f>>]
       /\ IF ~f.ok THEN Throw(p, "fetch")
          ELSE IF sync[p].path = "array"
          THEN IF f.format # "json_array" THEN Throw(p, "decode")
               ELSE /\ sync' = [sync EXCEPT ![p].pc = "select",
                                            ![p].toInsert = ToInsertArray(f.rows, now),
                                            ![p].rowsLength = Len(f.rows)]
                    /\ UNCHANGED response
          ELSE IF f.format # "jsonp" THEN Throw(p, "decode")
          ELSE IF MissingColumn(f.cols) THEN Throw(p, "column")
          ELSE /\ sync' = [sync EXCEPT ![p].pc = "select",
                                       ![p].toInsert = ToInsertGviz(f.cols, f.rows, now),
                                       ![p].rowsLength = Len(f.rows)]
               /\ UNCHANGED response
  /\ UNCHANGED <<orders, nextId, assignments, now, runs, ed, grid, mine, manual, call, admin>>

\* supabase.from("orders").select("sheet_row_id, status, taken_by")
Select(p) ==
  /\ sync[p].pc = "select"
  /\ \E selErr \in BOOLEAN :
       IF selErr THEN Throw(p, "select")
       ELSE LET s == [sync[p] EXCEPT !.existingMap = ExistingKeys(orders, 1, <<>>)]
            IN  /\ sync' = [sync EXCEPT ![p] = [s EXCEPT !.pc = AfterSelect(s)]]
                /\ UNCHANGED response
  /\ UNCHANGED <<orders, nextId, assignments, now, runs, ed, grid, mine, manual, hist, call, admin>>

\* supabase.from("orders").insert(newRecords)
Insert(p) ==
  /\ sync[p].pc = "insert"
  /\ \E insErr \in BOOLEAN :
       IF insErr THEN Throw(p, "insert") /\ UNCHANGED <<orders, nextId>>
       ELSE /\ nextId + Len(newRecords(sync[p])) - 1 <= MaxOrders
            /\ orders' = InsertOrders(orders, nextId, newRecords(sync[p]))
            /\ nextId' = nextId + Len(newRecords(sync[p]))
            /\ sync' = [sync EXCEPT ![p].inserted = Len(newRecords(sync[p])),
                                    ![p].pc = AfterInsert(sync[p])]
            /\ UNCHANGED response
  /\ UNCHANGED <<assignments, now, runs, ed, grid, mine, manual, call, admin>>
  /\ hist' = IF orders' = orders THEN hist ELSE DisturbedExcept(hist, p)


\* SyncPatch as an upsert of the whole record would be: status is rewritten too.
SyncPatchUpsert(row, r) ==
  [row EXCEPT !.client_name = r.client_name, !.requirement_text = r.requirement_text,
              !.price = r.price, !.due_date = r.due_date,
              !.raw_sheet_json = r.raw_sheet_json, !.source = GoogleSheet,
              !.status = r.status]

\* the .update({...}) of the loop over updateRecords
SyncPatch(row, r) ==
  [row EXCEPT !.client_name = r.client_name, !.requirement_text = r.requirement_text,
              !.price = r.price, !.due_date = r.due_date,
              !.raw_sheet_json = r.raw_sheet_json, !.source = GoogleSheet]

\* one iteration of for (const r of updateRecords): update ... .eq("sheet_row_id", ...)
Update(p) ==
  /\ sync[p].pc = "update"
  /\ \E upErr \in BOOLEAN :
       IF upErr THEN Throw(p, "update") /\ UNCHANGED orders
       ELSE LET r == updateRecords(sync[p])[sync[p].i]
                last == sync[p].i = Len(updateRecords(sync[p]))
            IN  /\ orders' = [o \in Ids |-> IF orders[o].sheet_row_id = r.sheet_row_id
                                            THEN SyncPatch(orders[o], r) ELSE orders[o]]
                /\ sync' = [sync EXCEPT ![p].updated = @ + 1,
                                        ![p].i = IF last THEN 1 ELSE @ + 1,
                                        ![p].pc = IF last THEN AfterUpdate(sync[p]) ELSE "update"]
                /\ UNCHANGED response
  /\ UNCHANGED <<nextId, assignments, now, runs, ed, grid, mine, manual, call, admin>>
  /\ hist' = IF orders' = orders THEN hist ELSE DisturbedExcept(hist, p)

\* 1) delete({count: "exact"}).neq("source", "google_sheet")
PurgeNonSheet(p) ==
  /\ sync[p].pc = "purge1"
  /\ \E delErr1 \in BOOLEAN :
       IF delErr1 THEN Throw(p, "delete") /\ UNCHANGED <<orders, assignments>>
       ELSE LET gone == {o \in Ids : orders[o].source # GoogleSheet}
                s == [sync[p] EXCEPT !.purged = @ + Cardinality(gone), !.staleIds = StaleIds(sync[p])]
            IN  /\ orders' = DeleteOrders(orders, gone)
                /\ assignments' = CascadeAssignments(assignments, gone)
                /\ sync' = [sync EXCEPT ![p] = [s EXCEPT !.pc = AfterPurge1(s), !.i = 1]]
                /\ UNCHANGED response
  /\ UNCHANGED <<nextId, now, runs, ed, grid, mine, manual, call, admin>>
  /\ hist' = IF orders' = orders THEN hist ELSE DisturbedExcept(hist, p)

\* PurgeStale with the slice taken as staleIds.slice(i, chunk)
PurgeStaleSliceEnd(p) ==
  /\ sync[p].pc = "purge2"
  /\ \E delErr2 \in BOOLEAN :
       IF delErr2 THEN Throw(p, "delete") /\ UNCHANGED <<orders, assignments>>
       ELSE LET from == sync[p].i
                upto == IF chunk < Len(sync[p].staleIds) THEN chunk ELSE Len(sync[p].staleIds)
                slice == SeqToSet(SubSeq(sync[p].staleIds, from, upto))
                gone == {o \in Ids : orders[o].sheet_row_id \in slice}
                last == from + chunk > Len(sync[p].staleIds)
            IN  /\ orders' = DeleteOrders(orders, gone)
                /\ assignments' = CascadeAssignments(assignments, gone)
                /\ sync' = [sync EXCEPT ![p].purged = @ + Cardinality(gone),
                                        ![p].i = IF last THEN 1 ELSE from + chunk,
                                        ![p].pc = IF last THEN "respond" ELSE "purge2"]
                /\ UNCHANGED response
  /\ UNCHANGED <<nextId, now, runs, ed, grid, mine, manual, call, admin>>
  /\ hist' = IF orders' = orders THEN hist ELSE DisturbedExcept(hist, p)

\* 2) one iteration of the loop over staleIds in slices of chunk:
\*    delete({count: "exact"}).in("sheet_row_id", slice)
PurgeStale(p) ==
  /\ sync[p].pc = "purge2"
  /\ \E delErr2 \in BOOLEAN :
       IF delErr2 THEN Throw(p, "delete") /\ UNCHANGED <<orders, assignments>>
       ELSE LET from == sync[p].i
                upto == IF from + chunk - 1 < Len(sync[p].staleIds)
                        THEN from + chunk - 1 ELSE Len(sync[p].staleIds)
                slice == SeqToSet(SubSeq(sync[p].staleIds, from, upto))
                gone == {o \in Ids : orders[o].sheet_row_id \in slice}
                last == from + chunk > Len(sync[p].staleIds)
            IN  /\ orders' = DeleteOrders(orders, gone)
                /\ assignments' = CascadeAssignments(assignments, gone)
                /\ sync' = [sync EXCEPT ![p].purged = @ + Cardinality(gone),
                                        ![p].i = IF last THEN 1 ELSE from + chunk,
                                        ![p].pc = IF last THEN "respond" ELSE "purge2"]
                /\ UNCHANGED response
  /\ UNCHANGED <<nextId, now, runs, ed, grid, mine, manual, call, admin>>
  /\ hist' = IF orders' = orders THEN hist ELSE DisturbedExcept(hist, p)

\* return new Response(JSON.stringify({ok: true, inserted, updated, purged, totalRows}))
Respond(p) ==
  /\ sync[p].pc = "respond"
  /\ sync' = [sync EXCEPT ![p].pc = "idle"]
  /\ response' = [response EXCEPT ![p] = Response(200, "true", FALSE, sync[p])]
  /\ hist' = [hist EXCEPT ![p].prev = IF hist[p].dirty THEN << >>
                                      ELSE <<[feed |-> hist[p].feed, end |-> orders]>>]
  /\ UNCHANGED <<orders, nextId, assignments, now, runs, ed, grid, mine, manual, call, admin>>


\* ------------------------------------------------------ the dashboards

EdIdle == [pc |-> "idle", order |-> 0, toast |-> "", affected |-> 0]

\* what the editor typed into the completion form of an order
CompleteForms ==
  { [link |-> <<>>, amount |-> <<>>, feedback |-> <<>>],
    [link |-> sLink, amount |-> <<57, 48, 48>>, feedback |-> sNote] }

\* x || null
OrNull(x) == IF x = <<>> THEN Null ELSE x

\* OrdersGrid.fetchOrders: .eq("status", "available")
FetchGrid(e) ==
  /\ grid' = [grid EXCEPT ![e] = {o \in Ids : orders[o].status = "available"}]
  /\ grid'[e] # grid[e]
  /\ UNCHANGED <<orders, nextId, assignments, now, sync, response, runs, ed, mine, manual, hist, call, admin>>

\* MyOrdersList.fetchOrders: .eq("taken_by", userId); takenOrders are the
\* fetched rows with status "taken", the ones shown with the three buttons.
FetchMine(e) ==
  /\ mine' = [mine EXCEPT ![e] = {o \in Ids : orders[o].taken_by = e /\ orders[o].status = "taken"}]
  /\ mine'[e] # mine[e]
  /\ UNCHANGED <<orders, nextId, assignments, now, sync, response, runs, ed, grid, manual, hist, call, admin>>

\* The conditional update of a dashboard handler of user e on order o.
\* failed: the request fails, or row-level security rejects the new row.
DashUpdate(e, o, eq, payload, failed, onError, onDone) ==
  LET rows == Matched(orders, e, o, eq)
  IN  IF failed \/ Rejected(orders, e, rows, payload)
      THEN /\ ed' = [ed EXCEPT ![e] = [EdIdle EXCEPT !.toast = onError]]
           /\ UNCHANGED <<orders, hist>>
      ELSE /\ orders' = ApplyPatch(orders, rows, payload)
           /\ ed' = [ed EXCEPT ![e] = [onDone EXCEPT !.affected = Cardinality(rows)]]
           /\ hist' = IF rows = {} THEN hist ELSE Disturbed(hist)

TakePatch(e, t) == [status |-> "taken", taken_by |-> e, taken_at |-> <<t>>]

\* OrdersGrid.handleTakeOrder up to the result of the update; error.code is
\* never "PGRST116" for an update without .single()
handleTakeOrder(e, o) ==
  /\ ed[e].pc = "idle"
  /\ o \in grid[e]
  /\ now < MaxTime
  /\ now' = now + 1
  /\ \E error \in BOOLEAN :
       DashUpdate(e, o, [status |-> "available"], TakePatch(e, now'), error,
                  "Failed to take order",
                  [EdIdle EXCEPT !.pc = "logTaken", !.order = o])
  /\ UNCHANGED <<nextId, assignments, sync, response, runs, grid, mine, manual, call, admin>>

CompletePatch(form, t) ==
  [status |-> "completed", completed_at |-> <<t>>,
   deliverable_link |-> OrNull(form.link),
   actual_amount |-> IF form.amount = <<>> THEN Null ELSE <<DigitsValue(form.amount)>>,
   editor_feedback |-> OrNull(form.feedback)]

\* MyOrdersList.handleCompleteOrder up to the result of the update
handleCompleteOrder(e, o) ==
  /\ ed[e].pc = "idle"
  /\ o \in mine[e]
  /\ now < MaxTime
  /\ now' = now + 1
  /\ \E error \in BOOLEAN, form \in CompleteForms :
       DashUpdate(e, o, [taken_by |-> e], CompletePatch(form, now'), error,
                  "Failed to complete order",
                  [EdIdle EXCEPT !.pc = "logCompleted", !.order = o])
  /\ UNCHANGED <<nextId, assignments, sync, response, runs, grid, mine, manual, call, admin>>

\* the else branch of handleTakeOrder and of handleCompleteOrder: the
\* assignment audit row (its error, if any, is not looked at), then the toast
LogAssignment(e) ==
  /\ ed[e].pc \in {"logTaken", "logCompleted"}
  /\ \E insErr \in BOOLEAN :
       assignments' =
         IF insErr \/ ed[e].order \notin Ids THEN assignments
         ELSE Append(assignments,
                     [order_id |-> ed[e].order, user_id |-> e,
                      action |-> IF ed[e].pc = "logTaken" THEN "taken" ELSE "completed"])
  /\ ed' = [ed EXCEPT ![e].pc = "idle",
                      ![e].toast = IF ed[e].pc = "logTaken" THEN "Order taken successfully!"
                                   ELSE "Order marked as completed!"]
  /\ UNCHANGED <<orders, nextId, now, sync, response, runs, grid, mine, manual, hist, call, admin>>

LeavePatch == [status |-> "available", taken_by |-> NoUser, taken_at |-> Null]

\* MyOrdersList.handleLeaveOrder
handleLeaveOrder(e, o) ==
  /\ ed[e].pc = "idle"
  /\ o \in mine[e]
  /\ \E error \in BOOLEAN :
       DashUpdate(e, o, [taken_by |-> e], LeavePatch, error,
                  "Failed to leave order",
                  [EdIdle EXCEPT !.toast = "Order released back to available"])
  /\ UNCHANGED <<nextId, assignments, now, sync, response, runs, grid, mine, manual, call, admin>>

FailPatch(t) == [status |-> "completed", completed_at |-> <<t>>, deliverable_link |-> sFailed]

\* MyOrdersList.handleFailOrder
handleFailOrder(e, o) ==
  /\ ed[e].pc = "idle"
  /\ o \in mine[e]
  /\ now < MaxTime
  /\ now' = now + 1
  /\ \E error \in BOOLEAN :
       DashUpdate(e, o, [taken_by |-> e], FailPatch(now'), error,
                  "Failed to mark order as failed",
                  [EdIdle EXCEPT !.toast = "Order marked as failed"])
  /\ UNCHANGED <<nextId, assignments, sync, response, runs, grid, mine, manual, call, admin>>

\* A row written to public.orders directly, as the policy "Admins can manage
\* all orders" allows: source is given or takes its default 'google_sheet',
\* sheet_row_id is given or NULL.
ManualInsert ==
  /\ manual < MaxManual
  /\ nextId <= MaxOrders
  /\ \E source \in {"manual", GoogleSheet}, sid \in {Null, sT1} :
       orders' = InsertOrders(orders, nextId,
                   <<[source |-> source, sheet_row_id |-> sid, client_name |-> sBo,
                      requirement_text |-> sReel, price |-> 100, due_date |-> Null,
                      status |-> "available", raw_sheet_json |-> RawRow(<<>>, <<>>)]>>)
  /\ nextId' = nextId + 1
  /\ manual' = manual + 1
  /\ hist' = Disturbed(hist)
  /\ UNCHANGED <<assignments, now, sync, response, runs, ed, grid, mine, call, admin>>

\* --------------------------------------------- the parsing functions alone

NoCall == [fn |-> "none", arg |-> << >>, ret |-> << >>]

\* budget texts: an amount is its text with its value n / 10^d, a suffix its
\* text with the multiplier the text stands for
Amount(text, n, d) == [text |-> text, n |-> n, d |-> d]

Amounts ==
  { Amount(<<49, 53, 48, 48>>, 1500, 0), Amount(<<50, 53, 48, 48>>, 2500, 0), Amount(<<49, 53, 44, 48, 48, 48>>, 15000, 0),
    Amount(<<49, 44, 53, 48, 44, 48, 48, 48>>, 150000, 0), Amount(<<50, 46, 53>>, 25, 1), Amount(<<48, 46, 52>>, 4, 1),
    Amount(<<49, 48>>, 10, 0), Amount(<<49, 46, 50, 53>>, 125, 2) }

Suffix(text, mult) == [text |-> text, mult |-> mult]

Suffixes ==
  { Suffix(<<>>, 1), Suffix(<<107>>, 1000), Suffix(<<75>>, 1000), Suffix(<<32, 107>>, 1000), Suffix(<<109>>, 1000000),
    Suffix(<<108>>, 100000), Suffix(<<76>>, 100000), Suffix(<<108, 97, 99>>, 100000), Suffix(<<32, 108, 97, 107, 104>>, 100000),
    Suffix(<<32, 108, 97, 107, 104, 115>>, 100000), Suffix(<<99, 114>>, 10000000), Suffix(<<32, 67, 114, 111, 114, 101>>, 10000000) }

\* an amount with a suffix, as long as the product stays a 32-bit integer
Scaled == {as \in Amounts \X Suffixes : as[1].n <= 1000000000 \div as[2].mult}

ScaledText(as) == as[1].text \o as[2].text

\* what is written before, between and after the amounts
sRupee == <<8377>>
sRs == <<82, 115, 32>>
sOnly == <<32, 111, 110, 108, 121>>
sTo == <<32, 116, 111, 32>>
sSpacedHyphen == <<32, 45, 32>>
sEnDash == <<8211>>
sNoBudget == <<110, 111, 32, 98, 117, 100, 103, 101, 116, 32, 103, 105, 118, 101, 110>>
sRupeeRange == <<8377>> \o <<49, 53, 44, 48, 48, 48, 32, 45, 32, 50, 48, 107>>
s25cr == <<50, 46, 53, 32, 99, 114>>
s10L == <<49, 48, 76>>

LowAmounts == {as \in Scaled : as[1].text \in {<<49, 53, 48, 48>>, <<50, 53, 48, 48>>} /\ as[2].mult \in {1, 1000}}

BudgetPool ==
  {Null, <<>>, sNoBudget, sOnly, sRupeeRange, s25cr, s10L}
  \cup {pre \o ScaledText(as) \o post : pre \in {<<>>, sRupee, sRs}, as \in Scaled, post \in {<<>>, sOnly}}
  \cup {ScaledText(lo) \o sep \o ScaledText(hi) :
          lo \in LowAmounts, hi \in LowAmounts, sep \in {<<Hyphen>>, sSpacedHyphen, sEnDash, sTo}}

TimelinePool ==
  { Null, <<>>, sUrgent, s1to4Weeks, <<85, 82, 71, 69, 78, 84, 44, 32, 110, 101, 101, 100, 32, 98, 121, 32, 70, 114, 105, 100, 97, 121>>, <<49, 45, 51, 32, 100, 97, 121, 115>>, <<51, 45, 55, 32, 100, 97, 121, 115>>, <<110, 101, 120, 116, 32, 119, 101, 101, 107>>, <<87, 105, 116, 104, 105, 110, 32, 97, 32, 77, 111, 110, 116, 104>>, <<50, 32, 109, 111, 110, 116, 104, 115>>, <<49, 45, 52>>, <<119, 104, 101, 110, 101, 118, 101, 114>>, <<49, 45, 51, 32, 119, 101, 101, 107, 115>>, <<97, 32, 119, 101, 101, 107, 32, 111, 114, 32, 97, 32, 109, 111, 110, 116, 104>> }

\* feed rows of both variants over a few values of each field
TimestampPool == {Null, <<>>, <<32, 32>>, sT1, <<32>> \o sT1 \o <<32>>}
NamePool == {Null, sBo, <<32>> \o sBo}
ServicePool == {Null, sEdit}
DescPool == {Null, <<32>>, sLong}
BudgetTextPool == {Null, s5k}
TimelineTextPool == {Null, s1to4Weeks}

Fields(ts, name, service, desc, budget, timeline) ==
  [ts |-> ts, name |-> name, service |-> service, desc |-> desc,
   budget |-> budget, timeline |-> timeline]

FieldsPool ==
  {Fields(ts, name, service, desc, budget, timeline) :
     ts \in TimestampPool, name \in NamePool, service \in ServicePool,
     desc \in DescPool, budget \in BudgetTextPool, timeline \in TimelineTextPool}

\* the row object of the array variant (keyed by the fallback headers, a
\* null field being a missing key) and the row of the wrapped variant
ArrayRow(f) ==
  LET keys  == <<LTimestampAlt, LFullNameAlt, LServiceAlt, LDescAlt, LBudgetAlt, LTimelineAlt>>
      vals  == <<f.ts, f.name, f.service, f.desc, f.budget, f.timeline>>
      kept  == SelectSeq(<<1, 2, 3, 4, 5, 6>>, LAMBDA i : vals[i] # Null)
  IN  RawRow([i \in 1..Len(kept) |-> keys[kept[i]]], [i \in 1..Len(kept) |-> Cell(vals[kept[i]])])

WrappedRow(f) ==
  RawRow(<<>>, <<Cell(f.ts), Cell(f.service), Cell(f.desc), Cell(f.budget), Cell(f.timeline), Cell(f.name)>>)

\* the record the job builds for a row of fields f read in the given variant
MapRow(variant, f, t) ==
  IF variant = "array" THEN MapArrayRow(ArrayRow(f), t) ELSE MapGvizRow(SheetCols, WrappedRow(f), t)

CallParseBudget ==
  /\ call = NoCall
  /\ \E budget \in BudgetPool :
       call' = [fn |-> "parseBudgetToNumber", arg |-> budget, ret |-> parseBudgetToNumber(budget)]
  /\ UNCHANGED <<orders, nextId, assignments, now, sync, response, runs, ed, grid, mine, manual, hist, admin>>

CallMapTimeline ==
  /\ call = NoCall
  /\ \E timeline \in TimelinePool, t \in 0..MaxTime :
       call' = [fn |-> "mapTimelineToDueDate", arg |-> [timeline |-> timeline, now |-> t],
                ret |-> mapTimelineToDueDate(timeline, t)]
  /\ UNCHANGED <<orders, nextId, assignments, now, sync, response, runs, ed, grid, mine, manual, hist, admin>>

CallMapRow ==
  /\ call = NoCall
  /\ \E variant \in {"array", "wrapped"}, f \in FieldsPool, t \in 0..1 :
       call' = [fn |-> "mapRow", arg |-> [variant |-> variant, fields |-> f, now |-> t],
                ret |-> MapRow(variant, f, t)]
  /\ UNCHANGED <<orders, nextId, assignments, now, sync, response, runs, ed, grid, mine, manual, hist, admin>>

\* ------------------------------------------------- the admin's figures

\* .neq(column, value): column <> value, which is not true of a null
Neq(v, x) == v # Null /\ v # x

\* Number(order.actual_amount ?? order.price)
OrderAmount(row) == IF row.actual_amount # Null THEN row.actual_amount[1] ELSE row.price

\* reduce((sum, order) => sum + ..., 0) over the rows in S
RECURSIVE SumAmounts(_, _)
SumAmounts(tbl, S) ==
  IF S = {} THEN 0
  ELSE LET o == CHOOSE x \in S : TRUE
       IN  OrderAmount(tbl[o]) + SumAmounts(tbl, S \ {o})

\* AdminStats.fetchStats: totalRevenue
totalRevenue(tbl) ==
  SumAmounts(tbl, {o \in DOMAIN tbl : /\ tbl[o].status = "completed"
                                      /\ Neq(tbl[o].deliverable_link, sFailed)})

\* RevenueChart.fetchRevenueData: the revenue of the group of editor e
editorRevenue(tbl, e) ==
  SumAmounts(tbl, {o \in DOMAIN tbl : /\ tbl[o].status = "completed"
                                      /\ Neq(tbl[o].deliverable_link, sFailed)
                                      /\ tbl[o].taken_by # NoUser
                                      /\ tbl[o].taken_by = e})

\* days of a month on the model's clock
MonthLen == 2

\* startOfMonth() and startOfNextMonth() at time t
startOfMonth(t) == (t \div MonthLen) * MonthLen

startOfNextMonth(t) == startOfMonth(t) + MonthLen

\* MonthlyRevenueBar.fetchData at time t: total
monthlyRevenue(tbl, t) ==
  SumAmounts(tbl, {o \in DOMAIN tbl : /\ tbl[o].status = "completed"
                                      /\ Neq(tbl[o].deliverable_link, sFailed)
                                      /\ tbl[o].completed_at # Null
                                      /\ tbl[o].completed_at[1] >= startOfMonth(t)
                                      /\ tbl[o].completed_at[1] < startOfNextMonth(t)})

\* ------------------------------------- the dashboard's own sheet sync

\* budget.replace(/[^0-9]/g, "")
RECURSIVE DigitsOnly(_)
DigitsOnly(s) ==
  IF s = <<>> THEN <<>>
  ELSE IF IsDigit(Head(s)) THEN <<Head(s)>> \o DigitsOnly(Tail(s))
  ELSE DigitsOnly(Tail(s))

\* SheetSyncButton's parseBudgetToNumber
parseBudgetClient(budget) ==
  IF budget = Null \/ budget = <<>> \/ DigitsOnly(budget) = <<>> THEN 0
  ELSE DigitsValue(DigitsOnly(budget))

\* String(n) of a natural number
RECURSIVE ToDecimal(_)
ToDecimal(n) == IF n < 10 THEN <<48 + n>> ELSE ToDecimal(n \div 10) \o <<48 + (n % 10)>>

\* `row-${idx + 1}` for the row at position i, counted from 1
RowId(i) == <<114, 111, 119, 45>> \o ToDecimal(i)

\* the separator as the file spells it
sDashSepClient == <<32, 226, 8364, 8221, 32>>

\* rows.map((row, idx) => ...) of SheetSyncButton.handleSync, for the row at position i
MapClientRow(cols, row, i, t) ==
  LET fullName  == IF Trim(Str(GvizGet(cols, row, LName))) = <<>> THEN sClient
                   ELSE Trim(Str(GvizGet(cols, row, LName)))
      service   == Trim(Str(GvizGet(cols, row, LService)))
      desc      == Trim(Str(GvizGet(cols, row, LDesc)))
      budgetRaw == Trim(Str(GvizGet(cols, row, LBudget)))
      timeline  == Trim(Str(GvizGet(cols, row, LTimeline)))
      timestamp == Trim(Str(GvizGet(cols, row, LTimestamp)))
  IN  [skip |-> FALSE,
       client_name |-> fullName,
       requirement_text |-> Join(FilterBoolean(<<service, desc>>), sDashSepClient),
       price |-> parseBudgetClient(budgetRaw),
       due_date |-> mapTimelineToDueDate(timeline, t),
       status |-> "available",
       source |-> GoogleSheet,
       sheet_row_id |-> IF timestamp # <<>> THEN timestamp ELSE RowId(i),
       raw_sheet_json |-> row]

ToInsertClient(cols, rows, t) == [i \in 1..Len(rows) |-> MapClientRow(cols, rows[i], i, t)]

\* new Set((existing ?? []).map((r) => r.sheet_row_id).filter(Boolean))
existingSet(tbl) == {tbl[o].sheet_row_id : o \in DOMAIN tbl} \ {Null, <<>>}

\* what handleSync leaves behind: its toast, the records it inserted and
\* the store after it
SyncOutcome(f, toast, inserted, end) ==
  [fn |-> "handleSync",
   arg |-> [feed |-> f, start |-> orders, now |-> now],
   ret |-> [toast |-> toast, inserted |-> inserted, end |-> end]]

\* SheetSyncButton.handleSync
handleSync ==
  /\ runs < MaxRuns
  /\ runs' = runs + 1
  /\ \E f \in FeedPool, selErr \in BOOLEAN, insErr \in BOOLEAN :
       LET thrown == ~f.ok \/ f.format # "jsonp" \/ MissingColumn(f.cols) \/ selErr
           toInsert == ToInsertClient(f.cols, f.rows, now)
           new == SelectSeq(toInsert, LAMBDA r : r.sheet_row_id \notin existingSet(orders))
       IN  IF thrown \/ (new # <<>> /\ insErr)
           THEN /\ call' = SyncOutcome(f, "Sync failed", <<>>, orders)
                /\ UNCHANGED <<orders, nextId>>
           ELSE IF new = <<>>
           THEN /\ call' = SyncOutcome(f, "No new orders to sync", <<>>, orders)
                /\ UNCHANGED <<orders, nextId>>
           ELSE /\ nextId + Len(new) - 1 <= MaxOrders
                /\ orders' = InsertOrders(orders, nextId, new)
                /\ nextId' = nextId + Len(new)
                /\ call' = SyncOutcome(f, "Synced", new, InsertOrders(orders, nextId, new))
  /\ hist' = IF orders' = orders THEN hist ELSE Disturbed(hist)
  /\ UNCHANGED <<assignments, now, sync, response, ed, grid, mine, manual, admin>>

\* ------------------------------------------------------ the Admin page

\* useState: user null, isAdmin false, loading true; session is the
\* session of the browser the page is opened in (NoUser: none)
AdminIdle ==
  [pc |-> "unmounted", session |-> NoUser, user |-> NoUser,
   isAdmin |-> FALSE, loading |-> TRUE, path |-> "/admin"]

\* RoleFound with the .eq("role", "admin") filter left out
RoleFoundAnyRole(u, error) == ~error /\ user_roles[u] # {}

\* roleData of the user_roles query with .maybeSingle(): the admin row of
\* the user, or null when there is none or the request fails
RoleFound(u, error) == ~error /\ has_role(u, "admin")

\* what the component returns
Render(a) ==
  IF a.pc = "unmounted" \/ a.path # "/admin" THEN "nothing"
  ELSE IF a.loading THEN "spinner"
  ELSE IF ~a.isAdmin THEN "denied"
  ELSE "analytics"

\* the page is opened: first render, useEffect starts checkAdminAccess
MountAdmin ==
  /\ admin.pc = "unmounted"
  /\ \E s \in Staff \cup {NoUser} :
       admin' = [AdminIdle EXCEPT !.pc = "getSession", !.session = s]
  /\ UNCHANGED <<orders, nextId, assignments, now, sync, response, runs, ed, grid, mine, manual, hist, call>>

\* await supabase.auth.getSession() and what follows up to the next await
GetSession ==
  /\ admin.pc = "getSession"
  /\ admin' = IF admin.session = NoUser
              THEN [admin EXCEPT !.pc = "done", !.path = "/auth"]
              ELSE [admin EXCEPT !.pc = "role", !.user = admin.session]
  /\ UNCHANGED <<orders, nextId, assignments, now, sync, response, runs, ed, grid, mine, manual, hist, call>>

\* await of the user_roles query and the rest of checkAdminAccess
RoleLookup ==
  /\ admin.pc = "role"
  /\ \E error \in BOOLEAN :
       admin' = [admin EXCEPT !.pc = "done",
                              !.isAdmin = RoleFound(admin.session, error),
                              !.loading = FALSE]
  /\ UNCHANGED <<orders, nextId, assignments, now, sync, response, runs, ed, grid, mine, manual, hist, call>>

AdminStep ==
  \/ MountAdmin
  \/ GetSession
  \/ RoleLookup

\* ---------------------------------------------------- the specification

Init ==
  /\ orders = << >>
  /\ nextId = 1
  /\ assignments = << >>
  /\ now = 0
  /\ sync = [p \in Procs |-> SyncIdle]
  /\ response = [p \in Procs |-> NoResponse]
  /\ runs = 0
  /\ ed = [e \in Staff |-> EdIdle]
  /\ grid = [e \in Staff |-> {}]
  /\ mine = [e \in Staff |-> {}]
  /\ manual = 0
  /\ hist = [p \in Procs |-> HistIdle]
  /\ call = NoCall
  /\ admin = AdminIdle

SyncStep(p) ==
  \/ Invoke(p)
  \/ Fetch(p)
  \/ Select(p)
  \/ Insert(p)
  \/ Update(p)
  \/ PurgeNonSheet(p)
  \/ PurgeStale(p)
  \/ Respond(p)

EditorStep(e) ==
  \/ FetchGrid(e)
  \/ FetchMine(e)
  \/ \E o \in 1..MaxOrders : handleTakeOrder(e, o)
  \/ \E o \in 1..MaxOrders : handleCompleteOrder(e, o)
  \/ \E o \in 1..MaxOrders : handleLeaveOrder(e, o)
  \/ \E o \in 1..MaxOrders : handleFailOrder(e, o)
  \/ LogAssignment(e)

Next ==
  \/ \E p \in Procs : SyncStep(p)
  \/ \E e \in Staff : EditorStep(e)
  \/ ManualInsert
  \/ handleSync
  \/ AdminStep

\* The whole system from the empty store.
Spec == Init /\ [][Next]_vars

\* The job and direct inserts alone: no dashboard is open.
NextSync ==
  \/ \E p \in OneAtATime : SyncStep(p)
  \/ ManualInsert

SpecSync == Init /\ [][NextSync]_vars

\* The state in which the job, invoked once from Init with no body and the
\* default sheet, has answered 200 after inserting the rows of SeedFeed.
SeedFeed == GvizFeed(<<gRowA>>)

SeedRun ==
  [SyncIdle EXCEPT !.toInsert = ToInsertGviz(SeedFeed.cols, SeedFeed.rows, 0),
                   !.rowsLength = Len(SeedFeed.rows),
                   !.inserted = Len(SeedFeed.rows)]

SeedOrders == InsertOrders(<< >>, 1, SeedRun.toInsert)

InitSynced ==
  /\ orders = SeedOrders
  /\ nextId = 1 + Len(SeedRun.toInsert)
  /\ assignments = << >>
  /\ now = 0
  /\ sync = [p \in Procs |-> IF p \in OneAtATime THEN SeedRun ELSE SyncIdle]
  /\ response = [p \in Procs |-> IF p \in OneAtATime THEN Response(200, "true", FALSE, SeedRun)
                                 ELSE NoResponse]
  /\ runs = 1
  /\ ed = [e \in Staff |-> EdIdle]
  /\ grid = [e \in Staff |-> {}]
  /\ mine = [e \in Staff |-> {}]
  /\ manual = 0
  /\ admin = AdminIdle
  /\ call = NoCall
  /\ hist = [p \in Procs |->
               IF p \in OneAtATime
               THEN [start |-> << >>, body |-> "absent", feed |-> <<SeedFeed>>, dirty |-> FALSE,
                     prev |-> <<[feed |-> <<SeedFeed>>, end |-> SeedOrders]>>, origin |-> << >>]
               ELSE [HistIdle EXCEPT !.dirty = TRUE]]

\* The dashboards alone, on the synced store.
NextDash == \E e \in Users : EditorStep(e)

SpecDash == InitSynced /\ [][NextDash]_vars

\* One dashboard user and the job together, on the synced store.
NextMix ==
  \/ \E p \in OneAtATime : SyncStep(p)
  \/ \E e \in MixUsers : EditorStep(e)

SpecMix == InitSynced /\ [][NextMix]_vars

\* Overlapping invocations of the job, from the empty store.
NextRace == \E p \in Procs : SyncStep(p)

SpecRace == Init /\ [][NextRace]_vars

\* The parsing functions called on their own: one call, on any input of the pools.
NextParse ==
  \/ CallParseBudget
  \/ CallMapTimeline
  \/ CallMapRow

SpecParse == Init /\ [][NextParse]_vars

\* The purge loop alone, on a large store: a purging invocation over a feed
\* without rows has read n feed-sourced orders, found all of them stale and
\* finished its first delete; n ranges over the counts near a multiple of
\* chunk.
MaxStale == 2004

Near == 5

StaleCounts == {n \in 1..MaxStale : n % chunk <= Near \/ n % chunk >= chunk - Near}

\* the identity of the k-th order of the large store
StaleId(k) == <<84, k>>

StaleOrders(n) ==
  [o \in 1..n |-> NewOrder([source |-> GoogleSheet, sheet_row_id |-> StaleId(o),
                            client_name |-> sClient, requirement_text |-> sEdit,
                            price |-> 0, due_date |-> Null, status |-> "available",
                            raw_sheet_json |-> RawRow(<<>>, <<>>)])]

InitPurge ==
  \E n \in StaleCounts :
    /\ orders = StaleOrders(n)
    /\ nextId = n + 1
    /\ assignments = << >>
    /\ now = 0
    /\ sync = [p \in Procs |->
                 IF p \in OneAtATime
                 THEN [SyncIdle EXCEPT !.pc = "purge2", !.purge = TRUE,
                                       !.existingMap = [k \in 1..n |-> StaleId(k)],
                                       !.staleIds = [k \in 1..n |-> StaleId(k)]]
                 ELSE SyncIdle]
    /\ response = [p \in Procs |-> NoResponse]
    /\ runs = 1
    /\ ed = [e \in Staff |-> EdIdle]
    /\ grid = [e \in Staff |-> {}]
    /\ mine = [e \in Staff |-> {}]
    /\ manual = 0
    /\ admin = AdminIdle
    /\ call = NoCall
    /\ hist = [p \in Procs |->
                 IF p \in OneAtATime
                 THEN [HistIdle EXCEPT !.start = StaleOrders(n), !.body = "true",
                                       !.feed = <<GvizFeed(<<>>)>>]
                 ELSE [HistIdle EXCEPT !.dirty = TRUE]]

NextPurge ==
  \E p \in OneAtATime :
    \/ PurgeStale(p)
    \/ Respond(p)

SpecPurge == InitPurge /\ [][NextPurge]_vars

\* The steps of an invocation after its start, each an await that returns.
Running(p) ==
  \/ Fetch(p)
  \/ Select(p)
  \/ Insert(p)
  \/ Update(p)
  \/ PurgeNonSheet(p)
  \/ PurgeStale(p)
  \/ Respond(p)

\* SpecSync with every await of an invocation returning.
SpecSyncFair == SpecSync /\ \A p \in OneAtATime : WF_vars(Running(p))

\* The dashboards of an editor and of a user who is admin too, on the synced
\* store: the admin's release passes the policy's WITH CHECK.
NextStale == \E e \in StaleUsers : EditorStep(e)

SpecStale == InitSynced /\ [][NextStale]_vars

\* The job and the dashboard's own sync, from the empty store.
NextClient ==
  \/ \E p \in OneAtATime : SyncStep(p)
  \/ handleSync

SpecClient == Init /\ [][NextClient]_vars

\* The Admin page beside the dashboard of an editor, on the synced store.
NextAdmin ==
  \/ AdminStep
  \/ \E e \in MixUsers : EditorStep(e)

SpecAdmin == InitSynced /\ [][NextAdmin]_vars

\* InitSynced is a state SpecSync reaches.
SyncedReached ==
  /\ orders = SeedOrders
  /\ sync = [p \in Procs |-> IF p \in OneAtATime THEN SeedRun ELSE SyncIdle]
  /\ response = [p \in Procs |-> IF p \in OneAtATime THEN Response(200, "true", FALSE, SeedRun)
                                 ELSE NoResponse]
  /\ runs = 1 /\ manual = 0 /\ nextId = 1 + Len(SeedRun.toInsert) /\ call = NoCall
  /\ hist = [p \in Procs |->
               IF p \in OneAtATime
               THEN [start |-> << >>, body |-> "absent", feed |-> <<SeedFeed>>, dirty |-> FALSE,
                     prev |-> <<[feed |-> <<SeedFeed>>, end |-> SeedOrders]>>, origin |-> << >>]
               ELSE [HistIdle EXCEPT !.dirty = TRUE]]

NotSyncedReached == ~SyncedReached

\* ------------------------------------------------------------ properties

WorkflowFields(row) ==
  <<row.status, row.taken_by, row.taken_at, row.completed_at, row.deliverable_link>>

\* C1: when two editors run handleTakeOrder on the same available order, an
\* update that changed no row (the loser's) never leads to the success
\* branch: a handler that is in the success branch, or has shown the success
\* toast, changed exactly one row.
C1_LoserIsToldAlreadyTaken ==
  \A e \in Users :
    (ed[e].pc = "logTaken" \/ ed[e].toast = "Order taken successfully!") => ed[e].affected = 1

\* C2: a step of the sync job leaves status, taken_by, taken_at, completed_at
\* and deliverable_link of every persisted order whose sheet_row_id is in the
\* feed of that run as they were, whatever the dashboards did in between.
C2_SyncPreservesWorkflow ==
  [][\A p \in Procs : sync'[p] # sync[p] =>
       \A o \in Ids \cap DOMAIN orders' :
         orders[o].sheet_row_id \in currentIds(sync[p]) =>
           WorkflowFields(orders'[o]) = WorkflowFields(orders[o])]_vars

\* C2 witness: the job has updated the content of an order that an editor
\* took after the job had read the store.
C2_Witness ==
  \E p \in Procs : \E o \in Ids :
    /\ sync[p].updated >= 1
    /\ orders[o].status = "taken"
    /\ orders[o].taken_by = "e1"
    /\ orders[o].sheet_row_id \in currentIds(sync[p])
    /\ orders[o].requirement_text # SeedOrders[1].requirement_text

C4_CompletedIsFinal ==
  [][\A o \in Ids \cap DOMAIN orders' :
       orders[o].status = "completed" =>
         /\ orders'[o].completed_at = orders[o].completed_at
         /\ orders'[o].deliverable_link = orders[o].deliverable_link
         /\ orders'[o].actual_amount = orders[o].actual_amount
         /\ orders'[o].editor_feedback = orders[o].editor_feedback]_vars

\* the fields C5 is about
Descriptive(row) ==
  <<row.client_name, row.requirement_text, row.price, row.raw_sheet_json, row.source>>

\* the invocation p has issued all its store operations without an error
\* and no other writer touched the store since it started
RanAlone(p) == sync[p].pc = "respond" /\ ~hist[p].dirty

\* C5: when a run completes after a successful run over the same feed, with
\* no other writer since that first run began, it has inserted nothing and
\* every row has the client_name, requirement_text, price, raw_sheet_json
\* and source the first run left.
C5_SecondRunIsNoOp ==
  \A p \in Procs :
    (RanAlone(p) /\ hist[p].prev # << >> /\ hist[p].prev[1].feed = hist[p].feed) =>
      /\ sync[p].inserted = 0
      /\ \A o \in Ids \cap DOMAIN hist[p].prev[1].end :
           Descriptive(orders[o]) = Descriptive(hist[p].prev[1].end[o])

\* C6: after a purge run that ran alone, no row of source google_sheet has a
\* sheet_row_id (NULL included) that is not an identity parsed in that run.
C6_NoStaleSheetRow ==
  \A p \in Procs :
    (RanAlone(p) /\ sync[p].purge) =>
      ~\E o \in Ids : /\ orders[o].source = GoogleSheet
                      /\ orders[o].sheet_row_id \notin currentIds(sync[p])

\* C7: after a purge run that ran alone, every row that had a source other
\* than google_sheet when the run started is gone.
C7_NonSheetRowsGone ==
  \A p \in Procs :
    (RanAlone(p) /\ sync[p].purge) =>
      \A o \in DOMAIN hist[p].start :
        hist[p].start[o].source # GoogleSheet => o \notin Ids

\* C8: a row disappears only in a purge step of an invocation whose body set
\* purge, and only if its source is not google_sheet or its sheet_row_id is
\* not an identity parsed in that invocation.
C8_DeletesOnlyOnPurge ==
  [][\A o \in Ids \ DOMAIN orders' :
       \E p \in Procs :
         /\ sync'[p] # sync[p]
         /\ hist[p].body = "true"
         /\ sync[p].pc \in {"purge1", "purge2"}
         /\ \/ orders[o].source # GoogleSheet
            \/ orders[o].sheet_row_id \notin currentIds(sync[p])]_vars

\* C8 witness: a purge run has deleted the stale sheet row and kept the row
\* whose identity is in the feed.
C8_Witness ==
  \E p \in Procs :
    /\ sync[p].pc = "respond" /\ sync[p].purge /\ sync[p].purged >= 1
    /\ Len(sync[p].staleIds) >= 1
    /\ \E o \in Ids : orders[o].sheet_row_id \in currentIds(sync[p])

\* C9: every row the job inserts is available, of source google_sheet, with
\* no assignee, taken_at or completed_at, and stands for a parsed feed row
\* whose identity was not among the sheet_row_id values the job had read.
C9_InsertsAreFreshAndAvailable ==
  [][\A p \in Procs : sync'[p] # sync[p] =>
       \A o \in DOMAIN orders' \ Ids :
         /\ orders'[o].status = "available"
         /\ orders'[o].source = GoogleSheet
         /\ orders'[o].taken_by = NoUser
         /\ orders'[o].taken_at = Null
         /\ orders'[o].completed_at = Null
         /\ orders'[o].sheet_row_id \in currentIds(sync[p])
         /\ orders'[o].sheet_row_id \notin SeqToSet(sync[p].existingMap)]_vars

\* C9 witness: a run that found persisted identities has inserted a row next
\* to them.
C9_Witness ==
  \E p \in Procs :
    /\ sync[p].inserted >= 1
    /\ Len(sync[p].existingMap) >= 1
    /\ \E o \in Ids : orders[o].sheet_row_id \notin SeqToSet(sync[p].existingMap)
                      /\ orders[o].sheet_row_id \in currentIds(sync[p])

\* C10: an invocation that failed is over (it issues no further operation)
\* and has answered 500 with a body {ok: false, error}.
C10_FailureResponse ==
  \A p \in Procs :
    sync[p].err # "none" =>
      /\ sync[p].pc = "idle"
      /\ response[p].status = 500
      /\ response[p].ok = "false"
      /\ response[p].error

\* the messages a dashboard shows when an operation failed
FailureToasts ==
  {"This order has already been taken by someone else", "Failed to take order",
   "Failed to complete order", "Failed to leave order", "Failed to mark order as failed"}

\* C11: when a dashboard operation ends without having changed a row (the
\* store rejected it or the update matched no row), the user sees a failure
\* message and the assignments table is as before (the orders table is, no
\* row having changed).
C11_NotAppliedIsReported ==
  [][\A e \in Users :
       (ed'[e] # ed[e] /\ ed'[e].pc = "idle" /\ ed'[e].affected = 0) =>
         /\ ed'[e].toast \in FailureToasts
         /\ assignments' = assignments
         /\ orders' = orders]_vars

\* C12: a step that turns an order to taken, or to completed (the path
\* that marks it failed included), leaves the handler of the editor who did
\* it at the insert of the assignment record {order, editor, action}.
C12_TransitionsAreLogged ==
  [][\A o \in Ids \cap DOMAIN orders' :
       (orders'[o].status # orders[o].status /\ orders'[o].status \in {"taken", "completed"}) =>
         \E e \in Users :
           /\ orders'[o].taken_by = e
           /\ ed'[e].order = o
           /\ ed'[e].pc = IF orders'[o].status = "taken" THEN "logTaken" ELSE "logCompleted"]_vars

\* C13: the assignments table only grows: every record stays where it is,
\* unchanged, whatever step is taken.
C13_AssignmentsOnlyGrow ==
  [][/\ Len(assignments') >= Len(assignments)
     /\ \A i \in 1..Len(assignments) : assignments'[i] = assignments[i]]_vars

\* the update loop over recs, run to its end on tbl
RECURSIVE UpdateAll(_, _)
UpdateAll(tbl, recs) ==
  IF recs = <<>> THEN tbl
  ELSE UpdateAll([o \in DOMAIN tbl |->
                    IF tbl[o].sheet_row_id = Head(recs).sheet_row_id
                    THEN SyncPatch(tbl[o], Head(recs)) ELSE tbl[o]],
                 Tail(recs))

\* the table one invocation leaves when it runs alone and to its end on tbl,
\* recs being its toInsert
SingleRun(tbl, recs, purge) ==
  LET s  == [toInsert |-> recs, existingMap |-> ExistingKeys(tbl, 1, <<>>)]
      t1 == InsertOrders(tbl, MaxOrders + 2, newRecords(s))
      t2 == UpdateAll(t1, updateRecords(s))
      t3 == DeleteOrders(t2, {o \in DOMAIN t2 : t2[o].source # GoogleSheet})
      t4 == DeleteOrders(t3, {o \in DOMAIN t3 : t3[o].sheet_row_id \in SeqToSet(StaleIds(s))})
  IN  IF purge THEN t4 ELSE t2

\* a table as the bag of its rows' identity, descriptive and workflow fields
Content(row) == <<row.sheet_row_id, Descriptive(row), WorkflowFields(row)>>

Canon(tbl) ==
  [x \in {Content(tbl[o]) : o \in DOMAIN tbl} |->
     Cardinality({o \in DOMAIN tbl : Content(tbl[o]) = x})]

\* the invocation p is the retry, over the same feed and with the same
\* purge flag, of an invocation that failed after its select
IsRetry(p) ==
  /\ hist[p].origin # << >>
  /\ hist[p].origin[1].feed = hist[p].feed
  /\ hist[p].origin[1].purge = sync[p].purge

\* C14: when a run that failed part-way is retried to success over the same
\* feed with no other writer, the orders table holds the rows (identity,
\* descriptive and workflow fields, with their multiplicity) that a single
\* successful run would have left from the state the failed run started in.
C14_RetryConverges ==
  \A p \in Procs :
    (RanAlone(p) /\ IsRetry(p)) =>
      Canon(orders) = Canon(SingleRun(hist[p].origin[1].start, sync[p].toInsert, sync[p].purge))

\* C17: after a run that found an identity of its feed not persisted, ran
\* alone and succeeded, exactly one order has that sheet_row_id.
C17_OneRowPerIdentity ==
  \A p \in Procs :
    RanAlone(p) =>
      \A id \in currentIds(sync[p]) \ SeqToSet(sync[p].existingMap) :
        Cardinality({o \in Ids : orders[o].sheet_row_id = id}) = 1

\* the rows of tbl with the sheet_row_id id
RowsOf(tbl, id) == {o \in DOMAIN tbl : tbl[o].sheet_row_id = id}

\* C15: the insert of an invocation is applied whatever was persisted since
\* its read: for every identity, the step adds as many rows as newRecords
\* holds for it, so that overlapping invocations that both read the store
\* before either inserted leave two rows with one sheet_row_id.
C15_InsertIgnoresLaterRows ==
  [][\A p \in Procs :
       (sync[p].pc = "insert" /\ sync'[p] # sync[p] /\ sync'[p].err = "none") =>
         \A id \in currentIds(sync[p]) :
           Cardinality(RowsOf(orders', id)) =
             Cardinality(RowsOf(orders, id))
             + Cardinality({i \in 1..Len(newRecords(sync[p])) :
                              newRecords(sync[p])[i].sheet_row_id = id})]_vars

\* C15 witness: two invocations over a one-row feed both read the empty
\* store, both inserted, and two orders carry the identity of that row.
C15_Witness ==
  \E id \in {orders[o].sheet_row_id : o \in Ids} :
    /\ Cardinality(RowsOf(orders, id)) = 2
    /\ \A p \in Procs :
         /\ sync[p].existingMap = << >>
         /\ sync[p].inserted = 1
         /\ Len(sync[p].toInsert) = 1
         /\ sync[p].toInsert[1].sheet_row_id = id

\* the texts that count as no timestamp
NoTimestamp == {ts \in TimestampPool : Trim(Str(ts)) = <<>>}

\* C16: the identity of a row that yields a record is its trimmed timestamp
\* text, as it stands, whenever that is not empty, whatever the other
\* fields are; otherwise it is the same for every row with the same name,
\* service, description, budget and timeline, in either feed variant and at
\* whatever time it is parsed.
C16_IdentityResolution ==
  (call.fn = "mapRow" /\ ~call.ret.skip) =>
    LET f == call.arg.fields
    IN  /\ Trim(Str(f.ts)) # <<>> => call.ret.sheet_row_id = Trim(Str(f.ts))
        /\ Trim(Str(f.ts)) = <<>> =>
             \A variant \in {"array", "wrapped"}, ts \in NoTimestamp, t \in 0..1 :
               MapRow(variant, [f EXCEPT !.ts = ts], t).sheet_row_id = call.ret.sheet_row_id

\* C16 witness: a row without timestamp, read in the array variant at time
\* 1, got the identity the wrapped variant gives the same fields at time 0,
\* and that identity is a text derived from the fields.
C16_Witness ==
  /\ call.fn = "mapRow" /\ ~call.ret.skip
  /\ call.arg.variant = "array" /\ call.arg.now = 1
  /\ call.arg.fields.ts \in NoTimestamp
  /\ call.ret.sheet_row_id = MapRow("wrapped", [call.arg.fields EXCEPT !.ts = Null], 0).sheet_row_id
  /\ call.ret.sheet_row_id # MapRow("wrapped", [call.arg.fields EXCEPT !.ts = Null, !.name = Null], 0).sheet_row_id

\* C16 as stated: a timestamp that is not empty after trimming is the
\* identity exactly as the feed holds it.
C16_TimestampVerbatim ==
  (call.fn = "mapRow" /\ ~call.ret.skip /\ Trim(Str(call.arg.fields.ts)) # <<>>) =>
    call.ret.sheet_row_id = Str(call.arg.fields.ts)

\* C18: the rules of mapTimelineToDueDate are tried in order on the
\* lower-cased text: urgent or 1-3 gives now + 3, else week or 3-7 gives
\* now + 7, else month or 1-4 gives now + 28, else (and for no text) null;
\* "1-4 weeks" gives now + 7.
C18_TimelineRules ==
  call.fn = "mapTimelineToDueDate" =>
    LET t == ToLowerCase(Str(call.arg.timeline))
        rule1 == Includes(t, sUrgent) \/ Includes(t, s1to3)
        rule2 == Includes(t, sWeek) \/ Includes(t, s3to7)
        rule3 == Includes(t, sMonth) \/ Includes(t, s1to4)
    IN  /\ rule1 => call.ret = <<call.arg.now + 3>>
        /\ (~rule1 /\ rule2) => call.ret = <<call.arg.now + 7>>
        /\ (~rule1 /\ ~rule2 /\ rule3) => call.ret = <<call.arg.now + 28>>
        /\ (~rule1 /\ ~rule2 /\ ~rule3) => call.ret = Null
        /\ call.arg.timeline = s1to4Weeks => call.ret = <<call.arg.now + 7>>

\* C18 witness: "1-4 weeks", which holds both "week" and "1-4", was
\* classified at a time other than 0 and got now + 7.
C18_Witness ==
  /\ call.fn = "mapTimelineToDueDate"
  /\ call.arg.timeline = s1to4Weeks
  /\ call.arg.now > 0
  /\ call.ret = <<call.arg.now + 7>>

\* the value an amount with a suffix stands for: n / 10^d times the
\* multiplier, rounded half up
ScaledValue(as) == (2 * as[1].n * as[2].mult + Pow10(as[1].d)) \div (2 * Pow10(as[1].d))

\* C19: parseBudgetToNumber returns a natural number; 0 for null, empty and
\* digit-free text; for one amount with a suffix the amount times the
\* suffix's multiplier, rounded; for a range the larger of its two bounds;
\* and 20000, 25000000, 1000000 for the rupee range, "2.5 cr" and "10L".
C19_BudgetParsing ==
  call.fn = "parseBudgetToNumber" =>
    /\ call.ret \in Nat
    /\ (\A i \in 1..Len(call.arg) : ~IsDigit(call.arg[i])) => call.ret = 0
    /\ \A pre \in {<<>>, sRupee, sRs}, as \in Scaled, post \in {<<>>, sOnly} :
         call.arg = pre \o ScaledText(as) \o post => call.ret = ScaledValue(as)
    /\ \A lo \in LowAmounts, hi \in LowAmounts, sep \in {<<Hyphen>>, sSpacedHyphen, sEnDash, sTo} :
         call.arg = ScaledText(lo) \o sep \o ScaledText(hi) =>
           call.ret = IF ScaledValue(lo) >= ScaledValue(hi) THEN ScaledValue(lo) ELSE ScaledValue(hi)
    /\ call.arg = sRupeeRange => call.ret = 20000
    /\ call.arg = s25cr => call.ret = 25000000
    /\ call.arg = s10L => call.ret = 1000000
    /\ call.arg = sRange => call.ret = 2500

\* C19 witness: the range from 15,000 rupees to 20k was parsed to its upper
\* bound.
C19_Witness ==
  /\ call.fn = "parseBudgetToNumber"
  /\ call.arg = sRupeeRange
  /\ call.ret = 20000

\* the trimmed text the row mapper of the invocation's path reads for a
\* field: get(la) ?? get(lb) in the OpenSheet path, get(la) in the GViz path
FieldOf(s, f, row, la, lb) ==
  IF s.path = "array"
  THEN Trim(Str(Coalesce(ArrayGet(row, la), ArrayGet(row, lb))))
  ELSE Trim(Str(GvizGet(f.cols, row, la)))

\* !service && !desc
BlankRow(s, f, row) ==
  /\ FieldOf(s, f, row, LService, LServiceAlt) = <<>>
  /\ FieldOf(s, f, row, LDesc, LDescAlt) = <<>>

\* the rows of the feed that are not blank, in feed order
KeptRows(s, f) == SelectSeq(f.rows, LAMBDA row : ~BlankRow(s, f, row))

\* the invocation has decoded its feed and mapped the rows
Mapped(p) ==
  /\ sync[p].pc \in {"select", "insert", "update", "purge1", "purge2", "respond"}
  /\ hist[p].feed # << >>

\* C20: in both feed variants the records of an invocation are those of the
\* feed rows whose service or description is not empty after trimming, one
\* per row and in feed order; a kept row with a blank name has client_name
\* "Client"; no more orders are inserted and updated than rows are kept; and
\* purge takes every persisted identity that no kept row carries for stale,
\* also when a blank row carries it.
C20_BlankRowsAreDropped ==
  \A p \in Procs :
    Mapped(p) =>
      LET s == sync[p]
          f == hist[p].feed[1]
          kept == KeptRows(s, f)
      IN  /\ Len(s.toInsert) = Len(kept)
          /\ \A i \in 1..Len(kept) :
                /\ i <= Len(s.toInsert)
                /\ s.toInsert[i].raw_sheet_json = kept[i]
                /\ FieldOf(s, f, kept[i], LName, LFullNameAlt) = <<>> =>
                     s.toInsert[i].client_name = sClient
          /\ s.inserted + s.updated <= Len(kept)
          /\ s.pc = "purge2" =>
                \A k \in 1..Len(s.existingMap) :
                  (\A i \in 1..Len(kept) :
                     i <= Len(s.toInsert) => s.toInsert[i].sheet_row_id # s.existingMap[k])
                  => s.existingMap[k] \in SeqToSet(s.staleIds)

\* C20 witness: a purging run over the wrapped feed of a row without name
\* and a blank row with timestamp T1 made one record, named "Client", and
\* is about to delete the persisted order T1 as stale.
C20_Witness ==
  \E p \in Procs :
    /\ Mapped(p)
    /\ sync[p].pc = "purge2"
    /\ hist[p].feed[1] = GvizFeed(<<gRowC, gRowBlank>>)
    /\ BlankRow(sync[p], hist[p].feed[1], gRowBlank)
    /\ Len(sync[p].toInsert) = 1
    /\ sync[p].toInsert[1].client_name = sClient
    /\ sT1 \in SeqToSet(sync[p].staleIds)
    /\ \E o \in DOMAIN orders : orders[o].sheet_row_id = sT1

\* C21: when the fetch of a wrapped-path invocation returns a table whose
\* columns lack a required label, the invocation ends there with the
\* missing-column error and status 500, having read and written nothing in
\* the store; when the fetch of an array-path invocation returns an array,
\* the invocation goes on to its select whatever labels the rows carry, and
\* every kept row's record is built from the fallback label's cell or from
\* empty text.
C21_MissingColumn ==
  [][\A p \in Procs :
       (sync[p].pc = "fetch" /\ sync'[p] # sync[p] /\ hist'[p].feed # << >>) =>
         LET f == hist'[p].feed[1]
             s == sync'[p]
             kept == KeptRows(sync[p], f)
         IN  /\ (sync[p].path = "gviz" /\ f.ok /\ f.format = "jsonp"
                 /\ \E i \in 1..Len(required) : required[i] \notin SeqToSet(f.cols)) =>
                  /\ s.pc = "idle" /\ s.err = "column"
                  /\ response'[p].status = 500 /\ response'[p].ok = "false"
                  /\ s.existingMap = << >> /\ s.toInsert = << >>
                  /\ s.inserted = 0 /\ s.updated = 0 /\ s.purged = 0
                  /\ orders' = orders /\ assignments' = assignments
             /\ (sync[p].path = "array" /\ f.ok /\ f.format = "json_array") =>
                  /\ s.pc = "select" /\ s.err = "none"
                  /\ Len(s.toInsert) = Len(kept)
                  /\ \A i \in 1..Len(kept) :
                       /\ i <= Len(s.toInsert)
                       /\ s.toInsert[i].price =
                            parseBudgetToNumber(FieldOf(sync[p], f, kept[i], LBudget, LBudgetAlt))
                       /\ s.toInsert[i].requirement_text =
                            Join(FilterBoolean(<<FieldOf(sync[p], f, kept[i], LService, LServiceAlt),
                                                 FieldOf(sync[p], f, kept[i], LDesc, LDescAlt)>>), sDashSep)
                       /\ ArrayGet(kept[i], LTimeline) = Null /\ ArrayGet(kept[i], LTimelineAlt) = Null =>
                            s.toInsert[i].due_date = Null
    ]_vars

\* C21 witness: after a first run filled the store, a wrapped-path
\* invocation whose table lacks the budget column has ended with the
\* missing-column error and status 500.
C21_Witness ==
  \E p \in Procs :
    /\ sync[p].pc = "idle" /\ sync[p].err = "column"
    /\ response[p].status = 500
    /\ hist[p].feed # << >>
    /\ LBudget \notin SeqToSet(hist[p].feed[1].cols)
    /\ LService \in SeqToSet(hist[p].feed[1].cols)
    /\ orders # << >>

\* C22: when an invocation answers 200 and no other writer touched the
\* store since it started, the counts of its response are what happened:
\* inserted is the number of orders that are there now and were not at the
\* start, updated the number of its records whose identity an order held at
\* the start, purged the number of orders of the start that are gone, and
\* totalRows the number of rows of the feed, blank ones included; inserted
\* plus updated is the number of rows kept, at most totalRows; and purged
\* is 0 unless purge was asked for.
C22_CountsMatch ==
  [][\A p \in Procs :
       (sync[p].pc = "respond" /\ sync'[p].pc = "idle" /\ ~hist[p].dirty) =>
         LET start == hist[p].start
             f == hist[p].feed[1]
             s == sync[p]
             r == response'[p]
             held == {start[o].sheet_row_id : o \in DOMAIN start} \ {Null, <<>>}
         IN  /\ r.status = 200 /\ r.ok = "true"
             /\ r.inserted = Cardinality(DOMAIN orders \ DOMAIN start)
             /\ r.updated = Cardinality({i \in 1..Len(s.toInsert) : s.toInsert[i].sheet_row_id \in held})
             /\ r.purged = Cardinality(DOMAIN start \ DOMAIN orders)
             /\ r.totalRows = Len(f.rows)
             /\ r.inserted + r.updated = Len(KeptRows(s, f))
             /\ r.inserted + r.updated <= r.totalRows
             /\ ~s.purge => r.purged = 0
    ]_vars

\* C22 witness: a purging run over a feed of two rows, one of them blank,
\* has answered 200 with one order inserted, none updated and one purged,
\* no other writer having touched the store.
C22_Witness ==
  \E p \in Procs :
    /\ sync[p].pc = "idle" /\ ~hist[p].dirty
    /\ response[p].status = 200
    /\ response[p].inserted = 1 /\ response[p].updated = 0
    /\ response[p].purged = 1 /\ response[p].totalRows = 2

\* C23: the stale identities are deleted in slices of at most chunk
\* identities that follow one another without gap or overlap: whenever the
\* loop stands at position i, or has failed there, i - 1 is a multiple of
\* chunk, no order holds an identity before position i and every identity
\* from i on is still held; each delete removes the orders of the next
\* chunk identities at most; once the loop is over no stale identity is
\* held; and after a failure nothing more is deleted.
C23_PurgeInBatches ==
  [][\A p \in Procs :
       LET s == sync'[p]
           failed == s.pc = "idle" /\ s.err = "delete"
           done == IF s.pc = "purge2" \/ failed THEN s.i - 1 ELSE Len(s.staleIds)
           held == {orders'[o].sheet_row_id : o \in DOMAIN orders'}
           removed == {orders[o].sheet_row_id : o \in DOMAIN orders \ DOMAIN orders'}
           from == sync[p].i
           upto == IF from + chunk - 1 < Len(sync[p].staleIds)
                   THEN from + chunk - 1 ELSE Len(sync[p].staleIds)
       IN  /\ (s.purge /\ s.staleIds # << >> /\ (s.pc \in {"purge2", "respond"} \/ failed)) =>
                /\ done % chunk = 0 \/ done = Len(s.staleIds)
                /\ \A k \in 1..Len(s.staleIds) : (k <= done) <=> (s.staleIds[k] \notin held)
                /\ s.purged = done
           /\ (sync[p].pc = "purge2" /\ s.err = "none") =>
                /\ Cardinality(removed) <= chunk
                /\ removed = {sync[p].staleIds[k] : k \in from..upto}
           /\ (sync[p].pc = "idle" /\ sync[p].err = "delete") => orders' = orders
    ]_vars

\* C23 witness: with more than two slices to delete, the first delete
\* went through and the second failed: the first chunk identities are gone,
\* the others are all still held, and the invocation has answered 500.
C23_Witness ==
  \E p \in Procs :
    /\ sync[p].pc = "idle" /\ sync[p].err = "delete"
    /\ response[p].status = 500
    /\ Len(sync[p].staleIds) > 2 * chunk
    /\ sync[p].i = chunk + 1
    /\ Cardinality(DOMAIN orders) = Len(sync[p].staleIds) - chunk
    /\ \A o \in DOMAIN orders : orders[o].sheet_row_id \notin SeqToSet(SubSeq(sync[p].staleIds, 1, chunk))

\* how far the handler has come
Rank(pc) ==
  CASE pc = "fetch" -> 1
    [] pc = "select" -> 2
    [] pc = "insert" -> 3
    [] pc = "update" -> 4
    [] pc = "purge1" -> 5
    [] pc = "purge2" -> 6
    [] pc = "respond" -> 7
    [] OTHER -> 8

\* C24: an invocation makes one response and ends with it: an OPTIONS
\* request is answered 204 with no fetch and no store operation; an
\* invocation that is under way makes no response before it ends, only moves
\* forward, a loop to its next element, and ends with 200 and ok true
\* when no step failed and with 500 when one did; and, every await
\* returning, each invocation that is under way does end.
C24_OneResponse ==
  /\ [][\A p \in OneAtATime :
          /\ (sync[p].pc = "idle" /\ runs' # runs) =>
               /\ response'[p].status \in {0, 204, 500}
               /\ response'[p].status = 0 <=> sync'[p].pc = "fetch"
               /\ response'[p].status # 0 =>
                    /\ sync'[p].pc = "idle"
                    /\ orders' = orders /\ assignments' = assignments
                    /\ sync'[p].existingMap = << >> /\ sync'[p].toInsert = << >>
                    /\ hist'[p].feed = << >>
          /\ (sync[p].pc # "idle" /\ sync'[p] # sync[p]) =>
               /\ response[p].status = 0
               /\ \/ Rank(sync'[p].pc) > Rank(sync[p].pc)
                  \/ sync'[p].pc = sync[p].pc /\ sync'[p].i > sync[p].i
               /\ sync'[p].pc # "idle" => response'[p] = response[p]
               /\ sync'[p].pc = "idle" =>
                    /\ response'[p].status \in {200, 500}
                    /\ response'[p].status = 200 <=>
                         (sync[p].pc = "respond" /\ sync'[p].err = "none" /\ response'[p].ok = "true")
                    /\ response'[p].status = 500 <=> sync'[p].err # "none"
          /\ (runs' = runs /\ sync'[p] = sync[p]) => response'[p] = response[p]
     ]_vars
  /\ \A p \in OneAtATime :
       (sync[p].pc # "idle") ~> (sync[p].pc = "idle" /\ response[p].status \in {200, 500})

\* C24 witness: an invocation that had inserted an order failed in its
\* purge and has ended with the one response 500.
C24_Witness ==
  \E p \in Procs :
    /\ sync[p].pc = "idle" /\ sync[p].err = "delete"
    /\ sync[p].inserted = 1
    /\ response[p].status = 500 /\ response[p].ok = "false"

\* the completed orders that are not marked FAILED, those without a
\* deliverable link included
Earning(tbl) ==
  {o \in DOMAIN tbl : tbl[o].status = "completed" /\ tbl[o].deliverable_link # sFailed}

\* C25: the total revenue, the revenue of each editor and the revenue of
\* the month are the sums of actual_amount, or of price where there is none,
\* over the completed orders not marked FAILED, over those of them the
\* editor holds, and over those of them completed in the month.
C25_RevenueFigures ==
  /\ totalRevenue(orders) = SumAmounts(orders, Earning(orders))
  /\ \A e \in Users :
       editorRevenue(orders, e) =
         SumAmounts(orders, {o \in Earning(orders) : orders[o].taken_by = e})
  /\ monthlyRevenue(orders, now) =
       SumAmounts(orders, {o \in Earning(orders) :
                             /\ orders[o].completed_at[1] >= startOfMonth(now)
                             /\ orders[o].completed_at[1] < startOfNextMonth(now)})

\* C26: an order is completed, marked failed or released only by the user
\* its taken_by names at that moment, from that user's list; an operation of
\* a user on an order that names another user, or none, changes no order.
C26_OnlyTheHolder ==
  [][/\ \A o \in DOMAIN orders :
          (o \in DOMAIN orders' /\ orders'[o] # orders[o] /\ orders'[o].status # "taken") =>
            \E e \in Staff :
              /\ orders[o].taken_by = e
              /\ ed[e].pc = "idle" /\ o \in mine[e]
              /\ ed'[e].affected = 1
              /\ \A u \in Staff \ {e} : ed'[u] = ed[u]
     /\ \A e \in Staff, o \in DOMAIN orders :
          (/\ ed[e].pc = "idle" /\ ed'[e] # ed[e]
           /\ o \in mine[e] /\ o \notin grid[e]
           /\ orders[o].taken_by # e) =>
            orders' = orders
    ]_vars

\* C26 witness: the admin released the order it had taken, editor e2 claimed
\* it, and an operation the admin then issued from its stale list matched
\* no row: the order is still e2's, taken.
C26_Witness ==
  \E o \in DOMAIN orders :
    /\ o \in mine[Admin]
    /\ orders[o].taken_by = "e2" /\ orders[o].status = "taken"
    /\ ed[Admin].pc \in {"idle", "logCompleted"}
    /\ ed[Admin].toast # "" /\ ed[Admin].affected = 0
    /\ ed[Admin].toast \in {"Order marked as failed", "Order released back to available"}
       \/ ed[Admin].pc = "logCompleted"

\* C27: an available order has no taken_by, no taken_at and no
\* completed_at; a taken order has a taken_by and a taken_at and no
\* completed_at; a completed order has a taken_by and a completed_at.
C27_StatusFields ==
  \A o \in DOMAIN orders :
    /\ orders[o].status = "available" =>
         orders[o].taken_by = NoUser /\ orders[o].taken_at = Null /\ orders[o].completed_at = Null
    /\ orders[o].status = "taken" =>
         orders[o].taken_by # NoUser /\ orders[o].taken_at # Null /\ orders[o].completed_at = Null
    /\ orders[o].status = "completed" =>
         orders[o].taken_by # NoUser /\ orders[o].completed_at # Null

\* C28: a claim goes on to write its assignment record and to show its
\* success message only when its update changed the order from available to
\* taken by the claimant, and a completion only when its update changed the
\* order from taken to completed; an assignment record is written by such a
\* handler alone, for its order and its user.
C28_AssignmentsAreEarned ==
  [][/\ \A e \in Staff :
          (ed[e].pc = "idle" /\ ed'[e].pc \in {"logTaken", "logCompleted"}) =>
            LET o == ed'[e].order
            IN  /\ o \in DOMAIN orders
                /\ orders'[o].taken_by = e
                /\ ed'[e].pc = "logTaken" =>
                     orders[o].status = "available" /\ orders'[o].status = "taken"
                /\ ed'[e].pc = "logCompleted" =>
                     orders[o].status = "taken" /\ orders'[o].status = "completed"
     /\ Len(assignments') > Len(assignments) =>
          \E e \in Staff :
            /\ ed[e].pc \in {"logTaken", "logCompleted"}
            /\ assignments' = Append(assignments,
                                [order_id |-> ed[e].order, user_id |-> e,
                                 action |-> IF ed[e].pc = "logTaken" THEN "taken" ELSE "completed"])
    ]_vars

\* the rows a list of records stands for, with the identity and the price
\* each was given
Keyed(recs) == {<<recs[i].raw_sheet_json, recs[i].sheet_row_id, recs[i].price>> : i \in 1..Len(recs)}

\* newRecords of the job for the feed f on the store tbl at time t
ServerNew(f, tbl, t) ==
  SelectSeq(ToInsertGviz(f.cols, f.rows, t),
            LAMBDA r : r.sheet_row_id \notin SeqToSet(ExistingKeys(tbl, 1, <<>>)))

\* C29: when the dashboard's sync goes through, the rows it inserts, with
\* their identities and prices, are those the job would insert for the same
\* feed on the same store; and a run of the job that starts from the store
\* the dashboard's sync left, over the same feed, inserts nothing.
C29_SameAsTheJob ==
  (call.fn = "handleSync" /\ call.ret.toast # "Sync failed") =>
    /\ Keyed(call.ret.inserted) = Keyed(ServerNew(call.arg.feed, call.arg.start, call.arg.now))
    /\ \A p \in Procs :
         (/\ sync[p].pc = "respond" /\ ~hist[p].dirty
          /\ hist[p].start = call.ret.end
          /\ hist[p].feed = <<call.arg.feed>>) =>
           sync[p].inserted = 0

\* C30: the Admin page shows the analytics and the refresh button only
\* when checkAdminAccess has ended after finding the admin role of the
\* session's user; until it has ended the page shows the spinner; when it
\* has ended without a session the page has navigated to /auth; and when it
\* has ended for a user without the admin role, or with a failed role
\* lookup, the page shows the access-denied card.
C30_AdminGate ==
  /\ Render(admin) = "analytics" =>
       /\ admin.pc = "done"
       /\ admin.session # NoUser /\ admin.user = admin.session
       /\ has_role(admin.session, "admin")
  /\ admin.pc \in {"getSession", "role"} => Render(admin) = "spinner"
  /\ (admin.pc = "done" /\ admin.session = NoUser) =>
       admin.path = "/auth" /\ Render(admin) = "nothing"
  /\ (admin.pc = "done" /\ admin.session # NoUser /\ ~has_role(admin.session, "admin")) =>
       Render(admin) = "denied"

\* C30 witness: the page, opened in the admin's session, shows the
\* analytics after both lookups.
C30_Witness ==
  /\ admin.pc = "done"
  /\ admin.session = Admin
  /\ Render(admin) = "analytics"

====
